---- MODULE Spec2Model ----
(***************************************************************************)
(* The ZW format codecs of zw-transformer: the four parseZW copies         *)
(* (src/parser.ts twice, zwParser.ts = src/unnamed/part_003, ZWParser.ts = *)
(* src/unnamed/part_007), the JSON importer (src/jsonToZw.ts) and the JSON *)
(* exporter (zwToJson, src/index.tsx:2336-2471).                           *)
(*                                                                         *)
(* A string is a sequence of one-character strings.  A tree is kept flat:  *)
(* nodes[1] is the root (or the error node), every other node names its    *)
(* parent, and the value array of a node is the nodes that name it, in     *)
(* index order (push order).  A depth is kept in halves (indent / 2 is     *)
(* stored as indent) so that odd indentation stays exact.                  *)
(***************************************************************************)
EXTENDS Integers, Sequences, FiniteSets, TLC

VARIABLES variant, opts, input, pc, lines, i, stack, nodes, result, last,
          json, rootZwType, zw, back, gdScript

vars == <<variant, opts, input, pc, lines, i, stack, nodes, result, last,
          json, rootZwType, zw, back, gdScript>>

jsonVars == <<json, rootZwType, zw, back, gdScript>>

----------------------------------------------------------------------------
(* Characters and strings *)

UpperCase == <<"A","B","C","D","E","F","G","H","I","J","K","L","M",
               "N","O","P","Q","R","S","T","U","V","W","X","Y","Z">>
LowerCase == <<"a","b","c","d","e","f","g","h","i","j","k","l","m",
               "n","o","p","q","r","s","t","u","v","w","x","y","z">>
Digits == <<"0","1","2","3","4","5","6","7","8","9">>

Upper == {UpperCase[n] : n \in 1..26}
Lower == {LowerCase[n] : n \in 1..26}
Digit == {Digits[n] : n \in 1..10}

\* \s of a JavaScript regular expression, and the characters trim() removes
Space == {" ", "\t", "\n"}

\* [A-Za-z0-9_]
KeyChar == Upper \cup Lower \cup Digit \cup {"_"}

\* [A-Z0-9_-] under the i flag
RootChar == KeyChar \cup {"-"}

\* the letter s that `\s` denotes inside a template literal
LetterS == {"s"}

\* the same under the i flag
LetterSi == {"s", "S"}

Max(S) == CHOOSE x \in S : \A y \in S : y <= x

toLowerCaseChar(c) ==
    IF c \in Upper THEN LowerCase[CHOOSE n \in 1..26 : UpperCase[n] = c] ELSE c

toLowerCase(s) == [n \in 1..Len(s) |-> toLowerCaseChar(s[n])]

toUpperCaseChar(c) ==
    IF c \in Lower THEN UpperCase[CHOOSE n \in 1..26 : LowerCase[n] = c] ELSE c

toUpperCase(s) == [n \in 1..Len(s) |-> toUpperCaseChar(s[n])]

\* how many characters of s after position from are in P, one after the other
runLen(s, from, P) ==
    LET stops == {p \in (from + 1)..Len(s) : s[p] \notin P}
    IN IF stops = {} THEN Len(s) - from
       ELSE (CHOOSE p \in stops : \A q \in stops : p <= q) - from - 1

\* number of leading whitespace characters: line.match(/^(\s*)/)[0].length
getIndentation(s) == runLen(s, 0, Space)

trimStart(s) == SubSeq(s, getIndentation(s) + 1, Len(s))

trimEnd(s) ==
    LET keep == {p \in 1..Len(s) : s[p] \notin Space}
    IN IF keep = {} THEN <<>> ELSE SubSeq(s, 1, Max(keep))

trim(s) == trimEnd(trimStart(s))

startsWith(s, p) == Len(p) <= Len(s) /\ SubSeq(s, 1, Len(p)) = p

\* ' '.repeat(n)
Spaces(n) == [p \in 1..n |-> " "]

\* s.split(sep) for a separator of one character or more
RECURSIVE split(_, _)
split(s, sep) ==
    LET at == {p \in 1..(Len(s) - Len(sep) + 1) : SubSeq(s, p, p + Len(sep) - 1) = sep}
    IN IF at = {} THEN <<s>>
       ELSE LET k == CHOOSE p \in at : \A q \in at : p <= q
            IN <<SubSeq(s, 1, k - 1)>> \o split(SubSeq(s, k + Len(sep), Len(s)), sep)

\* parts.join(sep)
RECURSIVE join(_, _)
join(parts, sep) ==
    IF Len(parts) = 0 THEN <<>>
    ELSE IF Len(parts) = 1 THEN parts[1]
    ELSE parts[1] \o sep \o join(Tail(parts), sep)

\* s.split('\n')
splitLines(s) == split(s, <<"\n">>)

\* parts.join('\n')
joinLines(parts) == join(parts, <<"\n">>)

----------------------------------------------------------------------------
(* Regular expressions of the parsers *)

NoMatch == [ok |-> FALSE, g1 |-> <<>>, g2 |-> <<>>]

\* ^(C+) PRE* D POST* followed by $ (toEnd) or by (.*)$, for character classes
\* C, PRE and POST, matched greedily with backtracking; D is the (escaped, hence literal) one-character delimiter.
RegexMatch(s, C, PRE, D, POST, toEnd) ==
    LET n == Len(s)
        ok(k, j) == /\ k + j + 1 <= n
                    /\ s[k + j + 1] = D
                    /\ toEnd => runLen(s, k + j + 1, POST) = n - (k + j + 1)
        js(k) == {j \in 0..runLen(s, k, PRE) : ok(k, j)}
        ks == {k \in 1..runLen(s, 0, C) : js(k) # {}}
    IN IF ks = {} THEN NoMatch
       ELSE LET k == Max(ks)
                a == k + Max(js(k)) + 1
            IN [ok |-> TRUE, g1 |-> SubSeq(s, 1, k),
                g2 |-> SubSeq(s, a + runLen(s, a, POST) + 1, n)]

P1 == "parser.ts#1"     \* parseZW of src/parser.ts:21
P2 == "parser.ts#2"     \* parseZW of src/parser.ts:113
ZP == "zwParser.ts"     \* parseZW of src/unnamed/part_003 (imported by zwToJson)
ZW == "ZWParser.ts"     \* parseZW of src/unnamed/part_007

Variants == {P1, P2, ZP, ZW}

\* one nesting level, in the unit depths are stored in (halves): depth = indent / 2
Level == 2

undefined == "undefined"

\* options.delimiter ?? ':'  (part_003: options?.delimiter || ':')
delimiterOf(o) == IF o.delimiter = undefined THEN ":" ELSE o.delimiter

\* opts.listItemPrefix ?? '-' in parser.ts#1, options.listPrefix ?? '-' in
\* parser.ts#2 and ZWParser.ts, the literal '- ' in zwParser.ts
listPrefixOf(v, o) ==
    CASE v = P1 -> IF o.listItemPrefix = undefined THEN "-" ELSE o.listItemPrefix
      [] v = ZP -> "-"
      [] OTHER  -> IF o.listPrefix = undefined THEN "-" ELSE o.listPrefix

\* what the source text `\s*` of a pattern is once the pattern is compiled: \s*
\* in a regular-expression literal and in a template literal that writes `\\s*`
\* (parser.ts#1, zwParser.ts); s* in a template literal that writes `\s*`
\* (parser.ts#2, ZWParser.ts), where `\s` is the letter s
whitespaceClass(v, ignoreCase) ==
    IF v \in {P1, ZP} THEN Space ELSE IF ignoreCase THEN LetterSi ELSE LetterS

\* the `\s*` parser.ts#2 alone writes between the key and the delimiter
beforeDelimiter(v, ignoreCase) ==
    IF v = P2 THEN whitespaceClass(v, ignoreCase) ELSE {}

\* the root pattern, applied to lines[0] (trimmed first only in parser.ts#2); the
\* delimiter is ':' itself in parser.ts#1 and zwParser.ts
rootMatch(v, o, line) ==
    RegexMatch(IF v = P2 THEN trim(line) ELSE line, RootChar, beforeDelimiter(v, TRUE),
               IF v \in {P1, ZP} THEN ":" ELSE delimiterOf(o),
               whitespaceClass(v, TRUE), TRUE)

\* a section-header pattern that every parser builds from the delimiter option
sectionRegexFromDelimiter(v, o, t) ==
    RegexMatch(t, KeyChar, beforeDelimiter(v, FALSE), delimiterOf(o),
               whitespaceClass(v, FALSE), TRUE)

\* the section-header pattern, applied to the trimmed line; the delimiter is ':'
\* itself in parser.ts#1
sectionRegex(v, o, t) ==
    RegexMatch(t, KeyChar, beforeDelimiter(v, FALSE),
               IF v = P1 THEN ":" ELSE delimiterOf(o),
               whitespaceClass(v, FALSE), TRUE)

\* the key/value pattern, applied to the trimmed line or to a list item's content
kvRegex(v, o, t) ==
    RegexMatch(t, KeyChar, beforeDelimiter(v, FALSE), delimiterOf(o),
               whitespaceClass(v, FALSE), FALSE)

----------------------------------------------------------------------------
(* The tree *)

\* ZWNode { key, value, depth } ; value is a string or an array
ZWNode(key, value, isArray, depth, parent) ==
    [type |-> "node", key |-> key, itemKey |-> <<>>, isKeyValue |-> FALSE,
     value |-> value, isArray |-> isArray, depth |-> depth, parent |-> parent]

\* ZWListItem { value, isKeyValue?, itemKey?, depth }
ZWListItem(value, isKeyValue, itemKey, depth, parent) ==
    [type |-> "item", key |-> <<>>, itemKey |-> itemKey, isKeyValue |-> isKeyValue,
     value |-> value, isArray |-> FALSE, depth |-> depth, parent |-> parent]

\* node.value as an array: the indices of the nodes pushed on it, in push order
children(ns, p) == SelectSeq([n \in 1..Len(ns) |-> n], LAMBDA n : ns[n].parent = p)

\* a key for the error node that does not carry the marker
ErrorKeyWithoutMarker == <<"I","n","v","a","l","i","d"," ","R","o","o","t">>

ErrorKey == <<"E","r","r","o","r",":"," ","I","n","v","a","l","i","d"," ","R","o","o","t">>

ErrorPrefix == <<"E","r","r","o","r",":">>

\* the diagnostic of the error node; the fixed parts of the message are kept whole
errorValue(v, o, line0) ==
    CASE v = P1 -> <<"Packet must start with a type (e.g., ZW-REQUEST:)">>
      [] v = P2 -> <<"Packet must start with a type and delimiter \"">>
                   \o <<delimiterOf(o)>> \o <<"\"">>
      [] v = ZP -> <<"Packet must start with a ZW Type (e.g., ZW-REQUEST:). First line encountered: \"">>
                   \o line0 \o <<"\"">>
      [] v = ZW -> <<"Packet must start with a type (e.g., ZW-REQUEST">>
                   \o <<delimiterOf(o)>> \o <<")">>

\* the character U+0060, which a TLA+ string cannot spell
Backquote == "<U+0060>"

Fence == <<Backquote, Backquote, Backquote>>

\* the opening fence: three backquotes, an optional zw in any case, whitespace
IsOpeningFence(line) ==
    /\ startsWith(line, Fence)
    /\ LET r == SubSeq(line, 4, Len(line))
           r2 == IF startsWith(toLowerCase(r), <<"z","w">>) THEN SubSeq(r, 3, Len(r)) ELSE r
       IN \/ runLen(r2, 0, Space) = Len(r2)
          \/ runLen(r, 0, Space) = Len(r)

\* stripMarkdownFences of zwParser.ts
stripMarkdownFences(s) ==
    LET ls == splitLines(trim(s))
    IN IF /\ Len(ls) >= 2
          /\ IsOpeningFence(ls[1])
          /\ trim(ls[Len(ls)]) = Fence
       THEN joinLines(SubSeq(ls, 2, Len(ls) - 1))
       ELSE s

\* a filter that keeps the comment lines
IsNotBlank(line) == trim(line) # <<>>

\* the lines that remain: not blank and not a comment
IsSignificant(line) == trim(line) # <<>> /\ ~startsWith(trim(line), <<"#">>)

significantLines(v, s) ==
    SelectSeq(splitLines(IF v = ZP THEN stripMarkdownFences(s) ELSE s), IsSignificant)

----------------------------------------------------------------------------
(* parseZW, line by line *)

\* the depth of a line, in halves: indent / 2, and Math.max(1, indent / 2) in
\* zwParser.ts
lineDepth(v, line) ==
    IF v = ZP /\ getIndentation(line) < Level THEN Level ELSE getIndentation(line)

\* while (stack.length > 1 && depth <= stack[stack.length - 1].depth) stack.pop()
RECURSIVE popStack(_, _, _)
popStack(stk, ns, depth) ==
    IF Len(stk) > 1 /\ depth <= ns[stk[Len(stk)]].depth
    THEN popStack(SubSeq(stk, 1, Len(stk) - 1), ns, depth)
    ELSE stk

\* the list item a line makes: the text after the prefix and the space, trimmed,
\* split by the key/value pattern when it matches
listItemOf(v, o, t, depth, parent) ==
    LET itemContent == trim(SubSeq(t, Len(<<listPrefixOf(v, o)>>) + 2, Len(t)))
        kv == kvRegex(v, o, itemContent)
    IN IF kv.ok THEN ZWListItem(kv.g2, TRUE, kv.g1, depth, parent)
       ELSE ZWListItem(itemContent, FALSE, <<>>, depth, parent)

\* one pass of the for loop over a line: the stack and the nodes after it, and
\* what it did (the branch taken, the parent chosen, the node pushed or changed)
lineStep(v, o, ns, stk, line) ==
    LET t == trim(line)
        depth == lineDepth(v, line)
        stk2 == popStack(stk, ns, depth)
        parent == stk2[Len(stk2)]
        kids == children(ns, parent)
        lastKid == kids[Len(kids)]
        sec == sectionRegex(v, o, t)
        kv == kvRegex(v, o, t)
        new == Len(ns) + 1
        did(kind, n) == [kind |-> kind, parent |-> parent, node |-> n]
    IN IF startsWith(t, <<listPrefixOf(v, o), " ">>)
       THEN [nodes |-> Append(ns, listItemOf(v, o, t, depth, parent)), stack |-> stk2,
             last |-> did("item", new)]
       ELSE IF sec.ok
       THEN [nodes |-> Append(ns, ZWNode(sec.g1, <<>>, TRUE, depth, parent)),
             stack |-> Append(stk2, new), last |-> did("section", new)]
       ELSE IF kv.ok
       THEN [nodes |-> Append(ns, ZWNode(kv.g1, kv.g2, FALSE, depth, parent)),
             stack |-> stk2, last |-> did("kv", new)]
       ELSE IF /\ Len(kids) > 0
               /\ \/ v = ZP /\ ~ns[lastKid].isArray
                  \/ v = ZW /\ ns[lastKid].type = "item" /\ ~ns[lastKid].isArray
       THEN [nodes |-> [ns EXCEPT ![lastKid].value = @ \o <<"\n">> \o t], stack |-> stk2,
             last |-> did("continuation", lastKid)]
       ELSE IF v = ZW /\ Len(kids) > 0 /\ \A n \in 1..Len(kids) : ns[kids[n]].type = "item"
       THEN [nodes |-> Append(ns, ZWListItem(t, FALSE, <<>>, depth, parent)), stack |-> stk2,
             last |-> did("push", new)]
       ELSE [nodes |-> ns, stack |-> stk2, last |-> did("dropped", 0)]

NoLast == [kind |-> "none", parent |-> 0, node |-> 0]

\* if (!zwString.trim()) return null;  if (lines.length === 0) return null
ReturnNull ==
    /\ pc = "start"
    /\ trim(input) = <<>> \/ significantLines(variant, input) = <<>>
    /\ result' = "null"
    /\ pc' = "done"
    /\ UNCHANGED <<variant, opts, input, lines, i, stack, nodes, last>>
    /\ UNCHANGED jsonVars

\* if (!rootMatch) return { key: 'Error: Invalid Root', value: ..., depth: 0 }
ReturnErrorNode ==
    /\ pc = "start"
    /\ trim(input) # <<>>
    /\ significantLines(variant, input) # <<>>
    /\ LET ls == significantLines(variant, input)
       IN /\ ~rootMatch(variant, opts, ls[1]).ok
          /\ lines' = ls
          /\ nodes' = <<ZWNode(ErrorKey, errorValue(variant, opts, ls[1]), FALSE, 0, 0)>>
    /\ result' = "node"
    /\ pc' = "done"
    /\ UNCHANGED <<variant, opts, input, i, stack, last>>
    /\ UNCHANGED jsonVars

\* const rootNode = { key: rootMatch[1], value: [], depth: 0 }; const stack = [rootNode]
StartRoot ==
    /\ pc = "start"
    /\ trim(input) # <<>>
    /\ significantLines(variant, input) # <<>>
    /\ LET ls == significantLines(variant, input)
       IN /\ rootMatch(variant, opts, ls[1]).ok
          /\ lines' = ls
          /\ nodes' = <<ZWNode(rootMatch(variant, opts, ls[1]).g1, <<>>, TRUE, 0, 0)>>
    /\ stack' = <<1>>
    /\ i' = 2
    /\ pc' = "lines"
    /\ UNCHANGED <<variant, opts, input, result, last>>
    /\ UNCHANGED jsonVars

\* the loop body on lines[i], for a line that takes one of the branches `kinds`
LoopBody(kinds) ==
    /\ pc = "lines"
    /\ i <= Len(lines)
    /\ LET r == lineStep(variant, opts, nodes, stack, lines[i])
       IN /\ r.last.kind \in kinds
          /\ nodes' = r.nodes
          /\ stack' = r.stack
          /\ last' = r.last
    /\ i' = i + 1
    /\ UNCHANGED <<variant, opts, input, pc, lines, result>>
    /\ UNCHANGED jsonVars

ListItemLine ==
    /\ pc = "lines"
    /\ LoopBody({"item"})

\* a key/value branch that keeps one child per key: a later line replaces the
\* child of the same key
KeyValueLineOverwriting ==
    /\ pc = "lines"
    /\ i <= Len(lines)
    /\ LET r == lineStep(variant, opts, nodes, stack, lines[i])
           new == r.nodes[Len(r.nodes)]
           same == {n \in 2..Len(nodes) :
                      /\ nodes[n].parent = r.last.parent
                      /\ nodes[n].type = "node"
                      /\ nodes[n].key = new.key}
           old == CHOOSE n \in same : \A m \in same : n <= m
       IN /\ r.last.kind = "kv"
          /\ nodes' = IF same = {} THEN r.nodes ELSE [nodes EXCEPT ![old] = new]
          /\ last' = IF same = {} THEN r.last ELSE [r.last EXCEPT !.node = old]
          /\ stack' = r.stack
    /\ i' = i + 1
    /\ UNCHANGED <<variant, opts, input, pc, lines, result>>
    /\ UNCHANGED jsonVars

SectionLine ==
    /\ pc = "lines"
    /\ LoopBody({"section"})

\* a key/value branch that opens its leaf: the leaf is pushed on the stack as a
\* section header is
KeyValueLinePushing ==
    /\ pc = "lines"
    /\ i <= Len(lines)
    /\ LET r == lineStep(variant, opts, nodes, stack, lines[i])
       IN /\ r.last.kind = "kv"
          /\ nodes' = r.nodes
          /\ stack' = Append(r.stack, r.last.node)
          /\ last' = r.last
    /\ i' = i + 1
    /\ UNCHANGED <<variant, opts, input, pc, lines, result>>
    /\ UNCHANGED jsonVars

KeyValueLine ==
    /\ pc = "lines"
    /\ LoopBody({"kv"})

ContinuationLine ==
    /\ pc = "lines"
    /\ LoopBody({"continuation"})

\* a line that matches nothing and is not folded into a value (the push of
\* ZWParser.ts, which needs a last child that is no item, is part of this action)
OtherLine ==
    /\ pc = "lines"
    /\ LoopBody({"dropped", "push"})

\* return rootNode
ReturnRoot ==
    /\ pc = "lines"
    /\ i > Len(lines)
    /\ result' = "node"
    /\ pc' = "done"
    /\ UNCHANGED <<variant, opts, input, lines, i, stack, nodes, last>>
    /\ UNCHANGED jsonVars

\* parseZW as a function: the loop over lines[from..], then the return
RECURSIVE parseLines(_, _, _, _, _, _)
parseLines(v, o, ls, from, ns, stk) ==
    IF from > Len(ls) THEN ns
    ELSE LET r == lineStep(v, o, ns, stk, ls[from])
         IN parseLines(v, o, ls, from + 1, r.nodes, r.stack)

parseZW(v, o, s) ==
    LET ls == significantLines(v, s)
    IN IF trim(s) = <<>> \/ ls = <<>> THEN [result |-> "null", nodes |-> <<>>]
       ELSE IF ~rootMatch(v, o, ls[1]).ok
       THEN [result |-> "node",
             nodes |-> <<ZWNode(ErrorKey, errorValue(v, o, ls[1]), FALSE, 0, 0)>>]
       ELSE [result |-> "node",
             nodes |-> parseLines(v, o, ls, 2,
                                  <<ZWNode(rootMatch(v, o, ls[1]).g1, <<>>, TRUE, 0, 0)>>,
                                  <<1>>)]

----------------------------------------------------------------------------
(* JSON values *)

\* a JSON value, as JSON.parse returns it; every kind has the same fields, and an
\* object keeps its keys in insertion order next to its values
JsonValue(t, s, n, b, keys, items) ==
    [t |-> t, s |-> s, n |-> n, b |-> b, keys |-> keys, items |-> items]

JsonNull == JsonValue("null", <<>>, 0, FALSE, <<>>, <<>>)
JsonString(s) == JsonValue("string", s, 0, FALSE, <<>>, <<>>)
JsonNumber(n) == JsonValue("number", <<>>, n, FALSE, <<>>, <<>>)
JsonBoolean(b) == JsonValue("boolean", <<>>, 0, b, <<>>, <<>>)
JsonArray(items) == JsonValue("array", <<>>, 0, FALSE, <<>>, items)
JsonObject(keys, items) == JsonValue("object", <<>>, 0, FALSE, keys, items)

\* a text JSON.parse throws on
JsonInvalid(text) == JsonValue("invalid", text, 0, FALSE, <<>>, <<>>)

\* err.message of the SyntaxError JSON.parse throws on a text: the engine words
\* it; some engines give one line that names a position, V8 quotes the text
\* itself (all of a short one), line breaks included
ErrorMessages(text) ==
    { <<"JSON.parse: unexpected character at line 1 column 1 of the JSON data">>,
      <<"Unexpected token, ", "\"">> \o text \o <<"\"", " is not valid JSON">> }

\* no value yet
NoJson == JsonValue("none", <<>>, 0, FALSE, <<>>, <<>>)

\* String(n) for an integer n
RECURSIVE digitsOf(_)
digitsOf(n) ==
    IF n < 10 THEN <<Digits[n + 1]>>
    ELSE digitsOf(n \div 10) \o <<Digits[(n % 10) + 1]>>

numToString(n) == IF n < 0 THEN <<"-">> \o digitsOf(0 - n) ELSE digitsOf(n)

\* String(Number(t)) === t, for the texts of this model (no '.', no exponent, no
\* Infinity): the decimal spelling of an integer
IsCanonicalNumber(t) ==
    LET u == IF startsWith(t, <<"-">>) THEN Tail(t) ELSE t
    IN /\ u # <<>>
       /\ \A p \in 1..Len(u) : u[p] \in Digit
       /\ u[1] = "0" => (Len(u) = 1 /\ u = t)

RECURSIVE valueOfDigits(_)
valueOfDigits(u) ==
    IF u = <<>> THEN 0
    ELSE 10 * valueOfDigits(SubSeq(u, 1, Len(u) - 1))
         + (CHOOSE n \in 1..10 : Digits[n] = u[Len(u)]) - 1

\* Number(t) of a canonical spelling
toNumber(t) ==
    IF startsWith(t, <<"-">>) THEN 0 - valueOfDigits(Tail(t)) ELSE valueOfDigits(t)

----------------------------------------------------------------------------
(* The JSON importer, src/jsonToZw.ts *)

JSON_TO_ZW_INDENT_SPACES == 2

\* typeof value === 'object' && value !== null &&
\* (Object.keys(value).length > 0 || (Array.isArray(value) && value.length > 0))
IsNonEmptyStructure(value) == value.t \in {"array", "object"} /\ value.items # <<>>

RECURSIVE convertValueToZw(_, _, _)
RECURSIVE convertObjectToZwItems(_, _, _)

convertValueToZw(value, currentIndentLevel, isInsideListSpecialSyntax) ==
    LET indent == Spaces(currentIndentLevel * JSON_TO_ZW_INDENT_SPACES)
        nextIndentLevel == currentIndentLevel + 1
        valueLines == split(value.s, <<"\\", "n">>)
    IN CASE value.t = "null" -> <<"n", "u", "l", "l">>
         [] value.t = "string" ->
                IF Len(valueLines) > 1
                THEN join([k \in 1..Len(valueLines) |->
                              IF k = 1 THEN <<"\"">> \o valueLines[k] \o <<"\"">>
                              ELSE indent \o valueLines[k]],
                          <<"\\", "n">>)
                ELSE IF value.s = <<>> THEN <<"\"", "\"">> ELSE value.s
         [] value.t = "number" -> numToString(value.n)
         [] value.t = "boolean" ->
                IF value.b THEN <<"t", "r", "u", "e">> ELSE <<"f", "a", "l", "s", "e">>
         [] value.t = "array" ->
                IF value.items = <<>>
                THEN <<"[", "]", " ", "#", " ", "E", "m", "p", "t", "y", " ", "l", "i", "s", "t">>
                ELSE join([k \in 1..Len(value.items) |->
                              IF value.items[k].t = "object"
                              THEN indent \o <<"-", " ">>
                                   \o trimStart(convertObjectToZwItems(value.items[k],
                                                                       nextIndentLevel, TRUE))
                              ELSE indent \o <<"-", " ">>
                                   \o convertValueToZw(value.items[k], nextIndentLevel, FALSE)],
                          <<"\n">>)
         [] value.t = "object" ->
                convertObjectToZwItems(value, nextIndentLevel, isInsideListSpecialSyntax)

\* the lines of one key are joined here and the keys' lines after that, which is
\* lines.join('\n') over all of them
convertObjectToZwItems(obj, currentIndentLevel, isInsideListSpecialSyntax) ==
    LET indent == Spaces(currentIndentLevel * JSON_TO_ZW_INDENT_SPACES)
        lead == IF isInsideListSpecialSyntax THEN <<>> ELSE indent
    IN join([k \in 1..Len(obj.keys) |->
                IF IsNonEmptyStructure(obj.items[k])
                THEN lead \o obj.keys[k] \o <<":">> \o <<"\n">>
                     \o convertValueToZw(obj.items[k],
                                         currentIndentLevel
                                         + (IF isInsideListSpecialSyntax THEN 0 ELSE 1),
                                         FALSE)
                ELSE lead \o obj.keys[k] \o <<":", " ">>
                     \o convertValueToZw(obj.items[k], currentIndentLevel, FALSE)],
            <<"\n">>)

\* convertJsonToZwString(jsonString, rootZwType), from the value JSON.parse gives
\* for jsonString, or from the message of the error it throws; a root type name
\* that is absent and one that is '' are both <<>>
convertJsonToZwString(parsedJson, rootType, message) ==
    LET initialIndentLevel == IF rootType # <<>> THEN 1 ELSE 0
        named == rootType # <<>> /\ trim(rootType) # <<>>
        head == IF named THEN trim(rootType) \o <<":", "\n">> ELSE <<>>
    IN IF parsedJson.t = "invalid"
       THEN <<"#", " ", "Error: Invalid JSON input.", "\n", "#", " ">> \o message
       ELSE IF parsedJson.t = "object"
       THEN head \o convertObjectToZwItems(parsedJson, initialIndentLevel, FALSE)
       ELSE IF parsedJson.t = "array"
       THEN IF named
            THEN head \o Spaces(initialIndentLevel * JSON_TO_ZW_INDENT_SPACES)
                 \o <<"R","O","O","T","_","L","I","S","T","_","D","A","T","A",":","\n">>
                 \o convertValueToZw(parsedJson, initialIndentLevel + 1, FALSE)
            ELSE (IF rootType = <<>>
                  THEN <<"J","S","O","N","_","A","R","R","A","Y","_","R","O","O","T",":","\n">>
                  ELSE <<>>)
                 \o convertValueToZw(parsedJson, 1, FALSE)
       ELSE IF named
            THEN head \o Spaces(initialIndentLevel * JSON_TO_ZW_INDENT_SPACES)
                 \o <<"R","O","O","T","_","V","A","L","U","E",":"," ">>
                 \o convertValueToZw(parsedJson, 0, FALSE)
            ELSE <<"J","S","O","N","_","P","R","I","M","I","T","I","V","E","_",
                   "R","O","O","T",":"," ">>
                 \o convertValueToZw(parsedJson, 0, FALSE)

----------------------------------------------------------------------------
(* The JSON exporter, src/index.tsx *)

\* s.replace(/\\q/g, q) for a quote character q
unescapeQuote(s, q) == join(split(s, <<"\\", q>>), <<q>>)

IsQuotedWith(t, q) == Len(t) >= 2 /\ t[1] = q /\ t[Len(t)] = q

\* an inference that knows true, false and null in lower case only
inferJsonValueCaseSensitive(valStr) ==
    LET trimmedVal == trim(valStr)
    IN IF trimmedVal = <<"t", "r", "u", "e">> THEN JsonBoolean(TRUE)
       ELSE IF trimmedVal = <<"f", "a", "l", "s", "e">> THEN JsonBoolean(FALSE)
       ELSE IF trimmedVal = <<"n", "u", "l", "l">> THEN JsonNull
       ELSE IF IsCanonicalNumber(trimmedVal) THEN JsonNumber(toNumber(trimmedVal))
       ELSE IF IsQuotedWith(trimmedVal, "\"")
       THEN JsonString(unescapeQuote(SubSeq(trimmedVal, 2, Len(trimmedVal) - 1), "\""))
       ELSE IF IsQuotedWith(trimmedVal, "'")
       THEN JsonString(unescapeQuote(SubSeq(trimmedVal, 2, Len(trimmedVal) - 1), "'"))
       ELSE JsonString(trimmedVal)

inferJsonValue(valStr) ==
    LET trimmedVal == trim(valStr)
    IN IF toLowerCase(trimmedVal) = <<"t", "r", "u", "e">> THEN JsonBoolean(TRUE)
       ELSE IF toLowerCase(trimmedVal) = <<"f", "a", "l", "s", "e">> THEN JsonBoolean(FALSE)
       ELSE IF toLowerCase(trimmedVal) = <<"n", "u", "l", "l">> THEN JsonNull
       ELSE IF IsCanonicalNumber(trimmedVal) THEN JsonNumber(toNumber(trimmedVal))
       ELSE IF IsQuotedWith(trimmedVal, "\"")
       THEN JsonString(unescapeQuote(SubSeq(trimmedVal, 2, Len(trimmedVal) - 1), "\""))
       ELSE IF IsQuotedWith(trimmedVal, "'")
       THEN JsonString(unescapeQuote(SubSeq(trimmedVal, 2, Len(trimmedVal) - 1), "'"))
       ELSE JsonString(trimmedVal)

\* the name of the accessor property every object literal inherits
ProtoKey == <<"_", "_", "p", "r", "o", "t", "o", "_", "_">>

\* obj[key] = val: a key already there keeps its place and takes the new value;
\* an assignment to __proto__ runs the inherited setter, which changes the
\* prototype or nothing, and adds no entry
setProperty(obj, key, val) ==
    IF key = ProtoKey THEN obj
    ELSE IF \E m \in 1..Len(obj.keys) : obj.keys[m] = key
    THEN [obj EXCEPT !.items[CHOOSE m \in 1..Len(obj.keys) : obj.keys[m] = key] = val]
    ELSE JsonObject(Append(obj.keys, key), Append(obj.items, val))

\* node.key of an array entry read as a ZWNode: a list item has no key
keyAsNode(c) == IF c.type = "node" THEN c.key ELSE <<"u","n","d","e","f","i","n","e","d">>

RECURSIVE convertZwValueToJson(_, _)
RECURSIVE objectOfNodes(_, _, _)

\* a conversion that takes the empty sequence for a list
convertZwValueToJsonEmptyList(ns, n) ==
    LET value == children(ns, n)
    IN IF ~ns[n].isArray THEN inferJsonValue(ns[n].value)
       ELSE IF Len(value) = 0 THEN JsonArray(<<>>)
       ELSE IF ns[value[1]].type = "item"
       THEN JsonArray([k \in 1..Len(value) |->
                         IF ns[value[k]].isKeyValue /\ ns[value[k]].itemKey # <<>>
                         THEN JsonObject(<<ns[value[k]].itemKey>>,
                                         <<convertZwValueToJson(ns, value[k])>>)
                         ELSE convertZwValueToJson(ns, value[k])])
       ELSE objectOfNodes(ns, value, JsonObject(<<>>, <<>>))

\* a conversion that does not wrap a key/value list item in an object
convertZwValueToJsonBareItems(ns, n) ==
    LET value == children(ns, n)
    IN IF ~ns[n].isArray THEN inferJsonValue(ns[n].value)
       ELSE IF Len(value) = 0 THEN JsonObject(<<>>, <<>>)
       ELSE IF ns[value[1]].type = "item"
       THEN JsonArray([k \in 1..Len(value) |-> convertZwValueToJson(ns, value[k])])
       ELSE objectOfNodes(ns, value, JsonObject(<<>>, <<>>))

\* convertZwValueToJson(ns[n].value): a string value is inferred; an array value
\* is a list when its first entry is a list item and an object otherwise
convertZwValueToJson(ns, n) ==
    LET value == children(ns, n)
    IN IF ~ns[n].isArray THEN inferJsonValue(ns[n].value)
       ELSE IF Len(value) = 0 THEN JsonObject(<<>>, <<>>)
       ELSE IF ns[value[1]].type = "item"
       THEN JsonArray([k \in 1..Len(value) |->
                         IF ns[value[k]].isKeyValue /\ ns[value[k]].itemKey # <<>>
                         THEN JsonObject(<<ns[value[k]].itemKey>>,
                                         <<convertZwValueToJson(ns, value[k])>>)
                         ELSE convertZwValueToJson(ns, value[k])])
       ELSE objectOfNodes(ns, value, JsonObject(<<>>, <<>>))

\* for (const item of value) obj[node.key] = convertZwValueToJson(node.value)
objectOfNodes(ns, value, obj) ==
    IF value = <<>> THEN obj
    ELSE objectOfNodes(ns, Tail(value),
                       setProperty(obj, keyAsNode(ns[Head(value)]),
                                   convertZwValueToJson(ns, Head(value))))

\* parseZW(zwString) of zwParser.ts, no options
DefaultOptions == [delimiter |-> undefined, listPrefix |-> undefined,
                   listItemPrefix |-> undefined]

\* an exporter that returns a list-shaped root as the array itself
convertZwToJsonObjectUnwrapped(zwString) ==
    LET parsedRootNode == parseZW(ZP, DefaultOptions, zwString)
    IN IF parsedRootNode.result = "null" THEN JsonNull
       ELSE IF startsWith(parsedRootNode.nodes[1].key, ErrorPrefix) THEN JsonNull
       ELSE convertZwValueToJson(parsedRootNode.nodes, 1)

\* convertZwToJsonObject(zwString); the null it returns is JsonNull
convertZwToJsonObject(zwString) ==
    LET parsedRootNode == parseZW(ZP, DefaultOptions, zwString)
        convertedValue == convertZwValueToJson(parsedRootNode.nodes, 1)
    IN IF parsedRootNode.result = "null" THEN JsonNull
       ELSE IF startsWith(parsedRootNode.nodes[1].key, ErrorPrefix) THEN JsonNull
       ELSE IF ~parsedRootNode.nodes[1].isArray THEN JsonNull
       ELSE IF convertedValue.t = "object" THEN convertedValue
       ELSE IF convertedValue.t = "array"
       THEN JsonObject(<< <<"r","o","o","t","_","i","t","e","m","s">> >>, <<convertedValue>>)
       ELSE JsonNull

\* the importer is called on the JSON text and a root type name
CallConvertJsonToZwString ==
    /\ pc = "json"
    /\ \E message \in ErrorMessages(json.s) :
          zw' = convertJsonToZwString(json, rootZwType, message)
    /\ pc' = "zw"
    /\ UNCHANGED <<variant, opts, input, lines, i, stack, nodes, result, last>>
    /\ UNCHANGED <<json, rootZwType, back, gdScript>>

\* the exporter is called on the text the importer gave
CallConvertZwToJsonObject ==
    /\ pc = "zw"
    /\ input' = zw
    /\ result' = parseZW(ZP, DefaultOptions, zw).result
    /\ nodes' = parseZW(ZP, DefaultOptions, zw).nodes
    /\ back' = convertZwToJsonObject(zw)
    /\ pc' = "exported"
    /\ UNCHANGED <<variant, opts, lines, i, stack, last>>
    /\ UNCHANGED <<json, rootZwType, zw, gdScript>>

----------------------------------------------------------------------------
(* The script exporter, src/zwToGodotScript.ts *)

\* str.replace(/\\/g, '\\\\').replace(/"/g, '\\"') between double quotes
RECURSIVE escapeChars(_)
escapeChars(str) ==
    IF str = <<>> THEN <<>>
    ELSE (IF Head(str) = "\\" THEN <<"\\", "\\">>
          ELSE IF Head(str) = "\"" THEN <<"\\", "\"">>
          ELSE <<Head(str)>>) \o escapeChars(Tail(str))

escapeGdScriptString(str) == <<"\"">> \o escapeChars(str) \o <<"\"">>

formatGodotKey(key) == escapeGdScriptString(key)

\* what a call gives: a text, or a TypeError thrown (str.replace of a key that is
\* undefined)
Returned(text) == [threw |-> FALSE, text |-> text]

Thrown == [threw |-> TRUE, text |-> <<>>]

\* convertNodeValueToGodot(ns[n].value, indentLevel)
RECURSIVE convertNodeValueToGodot(_, _, _)
convertNodeValueToGodot(ns, n, indentLevel) ==
    LET indent == Spaces(2 * indentLevel)
        nextIndent == Spaces(2 * (indentLevel + 1))
        nodeValue == children(ns, n)
        firstItem == ns[nodeValue[1]]
        inner == [k \in 1..Len(nodeValue) |->
                     convertNodeValueToGodot(ns, nodeValue[k], indentLevel + 1)]
        listItems ==
            [k \in 1..Len(nodeValue) |->
                LET listItem == ns[nodeValue[k]]
                IN IF listItem.isKeyValue /\ listItem.itemKey # <<>>
                   THEN nextIndent \o <<"{", " ">> \o formatGodotKey(listItem.itemKey)
                        \o <<":", " ">> \o inner[k].text \o <<" ", "}">>
                   ELSE nextIndent \o inner[k].text]
        dictEntries ==
            [k \in 1..Len(nodeValue) |->
                nextIndent \o formatGodotKey(ns[nodeValue[k]].key) \o <<":", " ">>
                \o inner[k].text]
    IN IF ~ns[n].isArray THEN Returned(escapeGdScriptString(ns[n].value))
       ELSE IF Len(nodeValue) = 0 THEN Returned(<<"{", "}">>)
       ELSE IF \E k \in 1..Len(nodeValue) : inner[k].threw THEN Thrown
       ELSE IF firstItem.type = "item"
       THEN Returned(<<"[", "\n">> \o join(listItems, <<",", "\n">>) \o <<"\n">>
                     \o indent \o <<"]">>)
       ELSE IF \E k \in 1..Len(nodeValue) : ns[nodeValue[k]].type = "item" THEN Thrown
       ELSE Returned(<<"{", "\n">> \o join(dictEntries, <<",", "\n">>) \o <<"\n">>
                     \o indent \o <<"}">>)

\* rootNode.key.replace(/-/g, '_').toUpperCase()
godotVariableName(key) ==
    toUpperCase([n \in 1..Len(key) |-> IF key[n] = "-" THEN "_" ELSE key[n]])

\* convertZwToGodot(rootNode), rootNode being what parseZW returned
convertZwToGodot(rootNode) ==
    LET ns == rootNode.nodes
        body == convertNodeValueToGodot(ns, 1, 0)
        head == <<"#", " ", "Auto-generated GDScript from ZW template: ">> \o ns[1].key
                \o <<"\n", "v", "a", "r", " ">> \o godotVariableName(ns[1].key)
                \o <<" ", "=", " ">>
    IN IF rootNode.result = "null"
       THEN Returned(<<"#", " ", "Error: Invalid ZW input or parsing failed.", "\n",
                       "#", " ", "Message: ", "Unknown error", " ">>)
       ELSE IF startsWith(ns[1].key, ErrorPrefix)
       THEN Returned(<<"#", " ", "Error: Invalid ZW input or parsing failed.", "\n",
                       "#", " ", "Message: ">> \o ns[1].key \o <<" ">>
                     \o (IF ns[1].isArray THEN <<>> ELSE ns[1].value))
       ELSE IF ~ns[1].isArray
       THEN Returned(head \o escapeGdScriptString(ns[1].value)
                     \o <<";", "\n", "#", " ", "Root node had a direct string value.", "\n">>)
       ELSE IF children(ns, 1) = <<>>
       THEN Returned(head \o <<"{", "}", "\n", "#", " ",
                               "Root node has no children defined.", "\n">>)
       ELSE IF body.threw THEN Thrown
       ELSE Returned(head \o body.text \o <<"\n">>)

\* the script exporter is called on what the parser made of a text
CallConvertZwToGodot ==
    /\ pc = "zw"
    /\ input' = zw
    /\ result' = parseZW(ZP, DefaultOptions, zw).result
    /\ nodes' = parseZW(ZP, DefaultOptions, zw).nodes
    /\ LET r == convertZwToGodot(parseZW(ZP, DefaultOptions, zw))
       IN /\ gdScript' = r.text
          /\ pc' = IF r.threw THEN "threw" ELSE "script"
    /\ UNCHANGED <<variant, opts, lines, i, stack, last>>
    /\ UNCHANGED <<json, rootZwType, zw, back>>

----------------------------------------------------------------------------
(* Inputs of the parser *)

\* the most lines that follow the first line of an input
MaxLines == 3

\* the longest body whose lines are drawn from every line of BodyLines
MaxFreeLines == 2

\* { delimiter: '=' }
EqualsOptions == [delimiter |-> "=", listPrefix |-> undefined, listItemPrefix |-> undefined]

\* { listPrefix: '*', listItemPrefix: '*' }: the list prefix under both of its names
StarOptions == [delimiter |-> undefined, listPrefix |-> "*", listItemPrefix |-> "*"]

ParseOptions == {DefaultOptions, EqualsOptions, StarOptions}

RootName == <<"Z","W","-","A">>

\* lines written with the delimiter d
KeyValueText(d) == <<"a", d, " ", "b">>
SectionText(d) == <<"k", d>>
TightKeyValueText(d) == <<"a", d, "s", "b">>
SpacedKeyValueText(d) == <<"f", "o", "o", " ", d, " ", "b", "a", "r">>
ScalarItemText == <<"-", " ", "x">>
KeyValueItemText(d) == <<"-", " ", "a", d, "b">>
PlainText == <<"x", " ", "y">>

\* the lines every body length draws from
CoreLines(d) ==
    { Spaces(2) \o KeyValueText(d), Spaces(4) \o KeyValueText(d),
      Spaces(2) \o SectionText(d), Spaces(4) \o SectionText(d),
      Spaces(2) \o ScalarItemText, Spaces(4) \o KeyValueItemText(d),
      Spaces(2) \o PlainText, Spaces(6) \o KeyValueText(d) }
    \cup (IF d = ":" THEN {} ELSE {Spaces(2) \o SectionText(":")})

\* the lines short bodies draw from as well
BodyLines(d) ==
    CoreLines(d) \cup
    { KeyValueText(d), SectionText(d), Spaces(3) \o KeyValueText(d),
      Spaces(2) \o TightKeyValueText(d), Spaces(2) \o SpacedKeyValueText(d),
      Spaces(4) \o ScalarItemText, Spaces(4) \o PlainText,
      Spaces(2) \o <<"#", " ", "c">>, <<" ">> }

Bodies(d) ==
    UNION { [1..n -> IF n <= MaxFreeLines THEN BodyLines(d) ELSE CoreLines(d)] :
            n \in 0..MaxLines }

\* first lines that some parser takes as the root under delimiter d
GoodHeads(d) ==
    { <<RootName \o <<":">>>>, <<RootName \o <<d>>>> }

\* what else an input can start with: nothing, blanks, comments, lines that are
\* no root line, and root lines with blanks and comments before them
OtherHeads(d) ==
    { <<>>, << <<>> >>, << <<" ", " ">> >>, << <<"#", " ", "c">> >>,
      << <<"#", "c">>, <<>>, <<" ", "#">> >>,
      << <<"n","o","t","-","a","-","r","o","o","t">> >>,
      << <<"Z", "W", " ", "A", ":">> >>,
      << <<" ">> \o RootName \o <<d>> >>,
      << RootName \o <<" ", d>> >>,
      << RootName \o <<d, " ">> >>,
      << RootName \o <<d, "s">> >>,
      << <<"z", "w", "_", "1">> \o <<d>> >>,
      << <<d>> >>,
      << <<"#", " ", "c">>, <<>>, RootName \o <<d>> >> }

\* texts inside a fenced code block, and texts with one fence line or with
\* lines that only look like one
FencedInputLines(d) ==
    LET root == RootName \o <<":">>
        kv == Spaces(2) \o KeyValueText(d)
    IN { <<Fence, root, kv, Fence>>,
         <<Fence \o <<"z", "w">>, root, Spaces(2) \o SectionText(d),
           Spaces(4) \o ScalarItemText, Fence>>,
         <<Spaces(1) \o Fence \o <<"Z", "W", " ">>, root, kv, Fence \o <<" ">>, <<>>>>,
         <<<<>>, Fence, root, kv, Spaces(2) \o PlainText, Fence, <<>>>>,
         <<Fence, root, kv>>,
         <<root, kv, Fence>>,
         <<Fence, root, kv, Fence \o <<"z", "w">>>>,
         <<Fence \o <<"j", "s", "o", "n">>, root, kv, Fence>>,
         <<Fence, Fence>>,
         <<Fence, <<"#", " ", "c">>, Fence>>,
         <<Fence>>,
         <<Fence, Fence, root, kv, Fence, Fence>> }

InputLines(d) ==
    { h \o b : h \in GoodHeads(d), b \in Bodies(d) }
    \cup FencedInputLines(d)
    \cup { h \o b : h \in OtherHeads(d),
                    b \in { <<>>, <<Spaces(2) \o KeyValueText(d)>>,
                            <<Spaces(2) \o ScalarItemText>>,
                            <<Spaces(2) \o SpacedKeyValueText(d)>> } }

\* list items written with the prefix p
PrefixedItemText(p, content) == <<p, " ">> \o content

\* the lines of an input parsed with the list prefix '*'
StarLines ==
    { Spaces(2) \o PrefixedItemText("*", <<"x">>),
      Spaces(2) \o PrefixedItemText("*", <<"a", ":", "b">>),
      Spaces(2) \o PrefixedItemText("*", <<"a", ":", "s", "b">>),
      Spaces(2) \o PrefixedItemText("*", <<"k", ":">>),
      Spaces(4) \o PrefixedItemText("*", <<"x", ":", "y">>),
      Spaces(2) \o ScalarItemText,
      Spaces(2) \o SectionText(":"),
      Spaces(2) \o KeyValueText(":") }

StarInputLines ==
    { <<RootName \o <<":">>>> \o b : b \in UNION { [1..n -> StarLines] : n \in 0..MaxFreeLines } }

InputLinesFor(o) == IF o = StarOptions THEN StarInputLines ELSE InputLines(delimiterOf(o))

Init ==
    /\ variant \in Variants
    /\ opts \in ParseOptions
    /\ input \in { joinLines(ls) : ls \in InputLinesFor(opts) }
    /\ pc = "start"
    /\ lines = <<>>
    /\ i = 0
    /\ stack = <<>>
    /\ nodes = <<>>
    /\ result = "none"
    /\ last = NoLast
    /\ json = NoJson
    /\ rootZwType = <<>>
    /\ zw = <<>>
    /\ back = NoJson
    /\ gdScript = <<>>

Next ==
    \/ ReturnNull
    \/ ReturnErrorNode
    \/ StartRoot
    \/ ListItemLine
    \/ SectionLine
    \/ KeyValueLine
    \/ ContinuationLine
    \/ OtherLine
    \/ ReturnRoot

Spec == Init /\ [][Next]_vars

----------------------------------------------------------------------------
(* Inputs of the JSON round trip *)

\* the most keys of an object whose values are drawn freely
MaxKeys == 2

JsonKeys == << <<"a">>, <<"k">>, <<"m">> >>

JsonStrings ==
    { <<"x">>, <<"p", " ", "q">>, <<"t","r","u","e">>, <<"T","r","u","e">>,
      <<"n","u","l","l">>, <<"7">>, <<"0","7">>, <<>>, <<" ", "x">>, <<"x", " ">>,
      <<"a", ":", "b">>, <<"a", ":", " ", "b">>, <<"\"", "q", "\"">>, <<"'", "q", "'">>,
      <<"x", "\n", "y">>, <<"x", "\\", "n", "y">>, <<"#", "x">>, <<"-", " ", "x">>,
      <<"\"", "a", "\\", "\"", "b", "\"">>, <<"F", "A", "L", "S", "E">>, <<"N", "u", "l", "l">>,
      <<"-", "1", "2">>, <<"-", "0">>, <<"\"">>, <<"'", "a", "\\", "'", "'">> }

JsonLeaves ==
    { JsonString(str) : str \in JsonStrings }
    \cup { JsonNumber(7), JsonNumber(0), JsonNumber(0 - 12), JsonBoolean(TRUE),
           JsonBoolean(FALSE), JsonNull }

JsonArrays ==
    { JsonArray(<<>>) }
    \cup { JsonArray(<<v>>) : v \in JsonLeaves }
    \cup { JsonArray(<<JsonString(<<"x">>), JsonString(<<"p", " ", "q">>)>>),
           JsonArray(<<JsonNumber(7), JsonBoolean(TRUE)>>),
           JsonArray(<<JsonArray(<<JsonString(<<"x">>)>>)>>),
           JsonArray(<<JsonObject(<< <<"a">> >>, <<JsonString(<<"x">>)>>)>>),
           JsonArray(<<JsonObject(<< <<"a">>, <<"k">> >>,
                                  <<JsonString(<<"x">>), JsonString(<<"y">>)>>)>>) }

JsonObjects ==
    { JsonObject(<<>>, <<>>),
      JsonObject(<< <<"k">> >>, <<JsonString(<<"x">>)>>),
      JsonObject(<< <<"k">> >>, <<JsonArray(<<JsonString(<<"x">>)>>)>>),
      JsonObject(<< <<"k">> >>, <<JsonObject(<< <<"m">> >>, <<JsonNumber(7)>>)>>) }

\* the values of an object of one key
JsonValues == JsonLeaves \cup JsonArrays \cup JsonObjects

\* the values of an object of more keys than one
JsonCoreValues ==
    { JsonString(<<"x">>), JsonString(<<"p", " ", "q">>), JsonNumber(7),
      JsonArray(<<JsonString(<<"x">>), JsonString(<<"y">>)>>),
      JsonObject(<< <<"k">> >>, <<JsonString(<<"x">>)>>) }

\* texts that are no JSON, of one line and of more
InvalidJsonTexts ==
    { <<"{">>, <<"x", " ", "y">>, <<"{", "\n", "\"", "a", "\"", ":", " ", "x", "}">>,
      RootName \o <<":", "\n", " ", " ", "a", ":", " ", "b">> }

JsonInputs ==
    { JsonInvalid(text) : text \in InvalidJsonTexts }
    \cup
    { JsonObject(<<>>, <<>>),
      JsonObject(<< <<"a", " ", "b">> >>, <<JsonObject(<< <<"k">> >>, <<JsonString(<<"x">>)>>)>>),
      JsonArray(<<JsonString(<<"x">>)>>), JsonString(<<"x">>) }
    \cup { JsonObject(<< <<"a">> >>, <<v>>) : v \in JsonValues }
    \cup UNION { { JsonObject(SubSeq(JsonKeys, 1, n), vs) : vs \in [1..n -> JsonCoreValues] } :
                 n \in 2..MaxKeys }

\* a root type name, none, and one that is blank
RootTypes == { RootName, <<>>, <<" ">> }

\* bodies with the key __proto__, as a leaf and as a section
ProtoBodies ==
    { <<Spaces(2) \o ProtoKey \o <<":", " ", "x">>>>,
      <<Spaces(2) \o KeyValueText(":"), Spaces(2) \o ProtoKey \o <<":", " ", "x">>>>,
      <<Spaces(2) \o ProtoKey \o <<":">>, Spaces(4) \o KeyValueText(":")>>,
      <<Spaces(2) \o ScalarItemText, Spaces(2) \o ProtoKey \o <<":", " ", "x">>>> }

\* the texts the exporter is given that no importer wrote: every first line of the
\* parser's inputs, followed by short bodies
ExportTexts ==
    { joinLines(h \o b) :
        h \in GoodHeads(":") \cup OtherHeads(":"),
        b \in UNION { [1..n -> BodyLines(":")] : n \in 0..MaxFreeLines } }
    \cup { joinLines(<<RootName \o <<":">>>> \o b) : b \in ProtoBodies }

\* either a JSON value and a root type name for the importer, or a text for the
\* exporter
InitJson ==
    /\ variant = ZP
    /\ opts = DefaultOptions
    /\ input = <<>>
    /\ lines = <<>>
    /\ i = 0
    /\ stack = <<>>
    /\ nodes = <<>>
    /\ result = "none"
    /\ last = NoLast
    /\ back = NoJson
    /\ gdScript = <<>>
    /\ \/ /\ pc = "json"
          /\ json \in JsonInputs
          /\ rootZwType \in RootTypes
          /\ zw = <<>>
       \/ /\ pc = "zw"
          /\ json = NoJson
          /\ rootZwType = <<>>
          /\ zw \in ExportTexts

NextJson ==
    \/ CallConvertJsonToZwString
    \/ CallConvertZwToJsonObject
    \/ CallConvertZwToGodot

SpecJson == InitJson /\ [][NextJson]_vars

----------------------------------------------------------------------------
(* What the claims speak of *)

Done == pc = "done"

IsErrorNode == result = "node" /\ Len(nodes) >= 1 /\ startsWith(nodes[1].key, ErrorPrefix)

IsTree == result = "node" /\ Len(nodes) >= 1 /\ ~startsWith(nodes[1].key, ErrorPrefix)

\* the first significant line was taken as the root line
RootAccepted == Len(nodes) >= 1 /\ ~startsWith(nodes[1].key, ErrorPrefix) /\ nodes[1].isArray

\* a line of the input that is blank or a comment, read off its characters
IsBlankOrComment(line) ==
    LET k == runLen(line, 0, Space)
    IN k = Len(line) \/ line[k + 1] = "#"

InputLinesOf(s) == splitLines(s)

HasNoRootLine ==
    \A n \in 1..Len(InputLinesOf(input)) : IsBlankOrComment(InputLinesOf(input)[n])

\* the loop has just handled lines[i - 1]
Handled == pc \in {"lines", "done"} /\ i > 2 /\ last.kind # "none"

HandledLine == lines[i - 1]

\* where the first d of a text is (0 when it has none)
FirstAt(t, d) ==
    IF \A p \in 1..Len(t) : t[p] # d THEN 0
    ELSE CHOOSE p \in 1..Len(t) : t[p] = d /\ \A q \in 1..(p - 1) : t[q] # d

\* identifier, d, optional whitespace, non-empty content
IsKeyValueText(t, d) ==
    LET p == FirstAt(t, d)
    IN /\ p > 1
       /\ \A q \in 1..(p - 1) : t[q] \in KeyChar
       /\ runLen(t, p, Space) < Len(t) - p

\* identifier, d, nothing else
IsHeaderText(t, d) ==
    /\ FirstAt(t, d) = Len(t)
    /\ Len(t) > 1
    /\ \A q \in 1..(Len(t) - 1) : t[q] \in KeyChar

KeyOfText(t, d) == SubSeq(t, 1, FirstAt(t, d) - 1)

ContentOfText(t, d) ==
    SubSeq(t, FirstAt(t, d) + runLen(t, FirstAt(t, d), Space) + 1, Len(t))

\* a first line made of an identifier immediately followed by d
IsRootText(line, d) ==
    /\ FirstAt(line, d) = Len(line)
    /\ Len(line) > 1
    /\ \A q \in 1..(Len(line) - 1) : line[q] \in RootChar

\* the lines of a text that are not empty
NonEmptyLines(s) == {n \in 1..Len(splitLines(s)) : trim(splitLines(s)[n]) # <<>>}

FirstNonEmpty(s) == CHOOSE n \in NonEmptyLines(s) : \A m \in NonEmptyLines(s) : n <= m

LastNonEmpty(s) == CHOOSE n \in NonEmptyLines(s) : \A m \in NonEmptyLines(s) : m <= n

\* an opening fence line, bare or tagged zw
IsFenceOpenText(line) ==
    \/ trim(line) = Fence
    \/ Len(trim(line)) = 5 /\ toLowerCase(trim(line)) = Fence \o <<"z", "w">>

\* a closing line that is exactly the fence
IsFenceCloseText(line) == trim(line) = Fence

OpensWithFence(s) == NonEmptyLines(s) # {} /\ IsFenceOpenText(splitLines(s)[FirstNonEmpty(s)])

ClosesWithFence(s) == NonEmptyLines(s) # {} /\ IsFenceCloseText(splitLines(s)[LastNonEmpty(s)])

\* the first and the last non-empty line are two lines, both fence markers
BothFenced(s) ==
    /\ Cardinality(NonEmptyLines(s)) >= 2
    /\ OpensWithFence(s)
    /\ ClosesWithFence(s)

\* the text without its first and its last non-empty line
WithoutFenceLines(s) ==
    joinLines(SelectSeq([n \in 1..Len(splitLines(s)) |->
                            IF n \in {FirstNonEmpty(s), LastNonEmpty(s)}
                            THEN <<"\n">> ELSE splitLines(s)[n]],
                        LAMBDA l : l # <<"\n">>))

----------------------------------------------------------------------------
(* C3 *)

\* C3: for every input whose first significant line is a valid root line, the
\* root has depth 0 and every node or list item has a depth exactly one level
\* greater than the depth of the node whose value sequence contains it.
C3_DepthIsNestingLevel ==
    IsTree =>
        /\ nodes[1].depth = 0
        /\ \A n \in 2..Len(nodes) : nodes[n].depth = nodes[nodes[n].parent].depth + Level

(* C4 *)

\* C4: the value sequence of every section node holds only section nodes or
\* only list items, never both.
C4_HomogeneousChildren ==
    IsTree =>
        \A n, m \in 2..Len(nodes) :
            nodes[n].parent = nodes[m].parent => nodes[n].type = nodes[m].type

(* C5 *)

\* C5: when the first significant line does not match the root pattern, the
\* parser returns exactly one node, whose key starts with 'Error:', whose depth
\* is 0 and whose value is a diagnostic string; no later line adds a child.
C5_RootFailureIsOneErrorNode ==
    (/\ Done
     /\ significantLines(variant, input) # <<>>
     /\ ~rootMatch(variant, opts, significantLines(variant, input)[1]).ok)
        => /\ result = "node"
           /\ Len(nodes) = 1
           /\ startsWith(nodes[1].key, ErrorPrefix)
           /\ nodes[1].depth = 0
           /\ ~nodes[1].isArray
           /\ nodes[1].value # <<>>
           /\ stack = <<>>

\* a root failure with a well-formed line after the bad first line
C5_Witness ==
    /\ Done
    /\ IsErrorNode
    /\ Len(lines) >= 2
    /\ IsKeyValueText(trim(lines[2]), delimiterOf(opts))

(* C6 *)

\* C6 as claimed: when the input has no root line at all (it is empty, whitespace
\* only, or only blank and comment lines), the parser returns the error node, so
\* that the result of a parse is always a tree or the error node.
C6_AbsentRootIsErrorNode ==
    (Done /\ HasNoRootLine) => (IsErrorNode /\ nodes[1].depth = 0 /\ ~nodes[1].isArray)

\* the text the parser reads: in zwParser.ts, what is between the fence lines
TextRead ==
    IF variant = ZP /\ BothFenced(input) THEN WithoutFenceLines(input) ELSE input

HasNoRootLineRead ==
    \A n \in 1..Len(InputLinesOf(TextRead)) : IsBlankOrComment(InputLinesOf(TextRead)[n])

\* C6 as amended: when the input has no root line at all, the parser returns
\* null and builds no node; the result of a parse is a tree, the error node or
\* null, and it is a node whenever some line (in zwParser.ts: some line between
\* the fence lines it strips) is neither blank nor a comment.
C6_AbsentRootIsNull ==
    Done => /\ HasNoRootLine => (result = "null" /\ nodes = <<>>)
            /\ HasNoRootLineRead => (result = "null" /\ nodes = <<>>)
            /\ ~HasNoRootLineRead => (result = "node" /\ (IsTree \/ IsErrorNode))

\* an input of comment and blank lines only, parsed to the end
C6_Witness ==
    /\ Done
    /\ HasNoRootLine
    /\ \E n \in 1..Len(InputLinesOf(input)) : startsWith(trim(InputLinesOf(input)[n]), <<"#">>)
    /\ result = "null"

(* C7 *)

\* C7: in ZWParser.ts with a delimiter D other than ':', a first line made of an
\* identifier immediately followed by D is the root (no error node, key = the
\* identifier); a child line K D v indented one level becomes the leaf
\* {key K, value v, depth 1}; a line K D opens a section, and a list item that
\* follows a section header at a deeper indentation is collected under it.
C7_CustomDelimiter ==
    LET d == delimiterOf(opts)
    IN (variant = ZW /\ d # ":" /\ Len(lines) >= 1 /\ IsRootText(lines[1], d)) =>
        /\ RootAccepted
        /\ nodes[1].key = KeyOfText(lines[1], d)
        /\ (/\ Handled
            /\ i - 1 = 2
            /\ getIndentation(HandledLine) = 2
            /\ IsKeyValueText(trim(HandledLine), d)
            /\ runLen(trim(HandledLine), FirstAt(trim(HandledLine), d), Space) = 0)
           => /\ last.kind = "kv"
              /\ nodes[last.node] = ZWNode(KeyOfText(trim(HandledLine), d),
                                           ContentOfText(trim(HandledLine), d),
                                           FALSE, Level, 1)
        /\ (Handled /\ IsHeaderText(trim(HandledLine), d))
           => /\ last.kind = "section"
              /\ nodes[last.node].key = KeyOfText(trim(HandledLine), d)
              /\ nodes[last.node].isArray
        /\ (/\ Handled
            /\ i - 1 > 2
            /\ IsHeaderText(trim(lines[i - 2]), d)
            /\ startsWith(trim(HandledLine), <<"-", " ">>)
            /\ getIndentation(HandledLine) > getIndentation(lines[i - 2]))
           => /\ last.kind = "item"
              /\ nodes[last.parent].key = KeyOfText(trim(lines[i - 2]), d)
              /\ last.parent = last.node - 1

(* C8 *)

\* C8: in parser.ts#2 with delimiter '=', whitespace between the identifier and
\* the delimiter is allowed and belongs to neither side: 'ZW-A =' is the root
\* ZW-A and the child line 'foo = bar' is the leaf {key foo, value bar, depth 1}.
C8_WhitespaceAroundDelimiter ==
    (/\ variant = P2
     /\ delimiterOf(opts) = "="
     /\ Done
     /\ InputLinesOf(input)[1] = RootName \o <<" ", "=">>)
    => /\ IsTree
       /\ nodes[1].key = RootName
       /\ (Len(InputLinesOf(input)) = 2
           /\ InputLinesOf(input)[2] = Spaces(2) \o SpacedKeyValueText("="))
          => (Len(nodes) = 2 /\ nodes[2] = ZWNode(<<"f", "o", "o">>, <<"b", "a", "r">>,
                                                  FALSE, Level, 1))

(* C9 *)

\* what C9 says of a parse under delimiter '=': a root line written with ':' is
\* the root, a line K ':' is a section header, and a line K '=' v that follows a
\* section header, one level deeper than it, is that section's child.
ColonHeadersWithEqualsDelimiter ==
    (delimiterOf(opts) = "=" /\ Len(lines) >= 1 /\ IsRootText(lines[1], ":")) =>
        /\ RootAccepted
        /\ nodes[1].key = KeyOfText(lines[1], ":")
        /\ (Handled /\ IsHeaderText(trim(HandledLine), ":"))
           => /\ last.kind = "section"
              /\ nodes[last.node].key = KeyOfText(trim(HandledLine), ":")
        /\ (/\ Handled
            /\ i - 1 > 2
            /\ IsHeaderText(trim(lines[i - 2]), ":")
            /\ getIndentation(lines[i - 2]) = 2
            /\ getIndentation(HandledLine) = 4
            /\ IsKeyValueText(trim(HandledLine), "="))
           => /\ last.kind = "kv"
              /\ nodes[last.node].key = KeyOfText(trim(HandledLine), "=")
              /\ nodes[last.node].value = ContentOfText(trim(HandledLine), "=")
              /\ nodes[last.node].depth = 2 * Level
              /\ last.parent = last.node - 1
              /\ nodes[last.parent].key = KeyOfText(trim(lines[i - 2]), ":")
              /\ nodes[last.parent].isArray

\* C9 as claimed: with delimiter '=', parser.ts#1 and zwParser.ts still take a
\* root line and section headers written with ':', key/value lines use '=', and a
\* key/value line indented under such a header is that section's child, depth 2.
C9_ColonHeadersEverywhere ==
    variant \in {P1, ZP} => ColonHeadersWithEqualsDelimiter

\* C9 as amended: this holds of parser.ts#1 (the parser of the test it comes
\* from); zwParser.ts takes the ':' root line and the '=' key/value lines, but
\* its section headers are written with the delimiter, so that 'section:' opens
\* no section there (the line is dropped or folded into the value before it).
C9_ColonHeadersInParser1 ==
    /\ variant = P1 => ColonHeadersWithEqualsDelimiter
    /\ (/\ variant = ZP
        /\ delimiterOf(opts) = "="
        /\ Len(lines) >= 1
        /\ IsRootText(lines[1], ":"))
       => /\ RootAccepted
          /\ nodes[1].key = KeyOfText(lines[1], ":")
          /\ (Handled /\ IsHeaderText(trim(HandledLine), ":"))
             => last.kind \in {"dropped", "continuation"}
          /\ (Handled /\ IsKeyValueText(trim(HandledLine), "="))
             => /\ last.kind = "kv"
                /\ nodes[last.node].key = KeyOfText(trim(HandledLine), "=")
                /\ nodes[last.node].value = ContentOfText(trim(HandledLine), "=")

\* parser.ts#1 under '=', a key/value line attached under a ':' section header
C9_Witness ==
    /\ variant = P1
    /\ delimiterOf(opts) = "="
    /\ Handled
    /\ i - 1 > 2
    /\ IsHeaderText(trim(lines[i - 2]), ":")
    /\ IsKeyValueText(trim(HandledLine), "=")
    /\ getIndentation(HandledLine) = 4
    /\ last.kind = "kv"
    /\ nodes[last.node].depth = 2 * Level

(* C10 *)

\* C10: every line of the form identifier, delimiter, optional whitespace,
\* non-empty content produces a leaf section node whose key is the identifier
\* and whose value is the content, as a raw string, without the whitespace that
\* follows the delimiter.
C10_KeyValueLeaf ==
    (Handled /\ IsKeyValueText(trim(HandledLine), delimiterOf(opts))) =>
        /\ last.kind = "kv"
        /\ nodes[last.node].type = "node"
        /\ ~nodes[last.node].isArray
        /\ nodes[last.node].key = KeyOfText(trim(HandledLine), delimiterOf(opts))
        /\ nodes[last.node].value = ContentOfText(trim(HandledLine), delimiterOf(opts))

----------------------------------------------------------------------------
(* C1, C2 *)

Exported == pc = "exported"

\* equality of JSON values: objects by their keys, whatever the order
RECURSIVE jsonEqual(_, _)
jsonEqual(x, y) ==
    /\ x.t = y.t
    /\ CASE x.t = "object" ->
                /\ Len(x.keys) = Len(y.keys)
                /\ \A k \in 1..Len(x.keys) : \E m \in 1..Len(y.keys) :
                        y.keys[m] = x.keys[k] /\ jsonEqual(x.items[k], y.items[m])
         [] x.t = "array" ->
                /\ Len(x.items) = Len(y.items)
                /\ \A k \in 1..Len(x.items) : jsonEqual(x.items[k], y.items[k])
         [] OTHER -> x = y

\* a value that holds an empty array or an empty object somewhere
RECURSIVE HasEmptyStructure(_)
HasEmptyStructure(x) ==
    /\ x.t \in {"array", "object"}
    /\ \/ x.items = <<>>
       \/ \E k \in 1..Len(x.items) : HasEmptyStructure(x.items[k])

\* C1: for every JSON object j without an empty array or empty object and every
\* valid root type name n, convertZwToJsonObject(convertJsonToZwString(j, n)) is
\* equal to j.
C1_JsonRoundTrip ==
    (/\ Exported
     /\ rootZwType = RootName
     /\ json.t = "object"
     /\ ~HasEmptyStructure(json))
    => jsonEqual(back, json)

IsIdentifier(k) == k # <<>> /\ \A p \in 1..Len(k) : k[p] \in KeyChar

\* a plain single-line string: not empty, one line, and (also once trimmed) not
\* spelled like a boolean, null, a number or a quoted string
IsPlainString(x) ==
    /\ x.t = "string"
    /\ x.s # <<>>
    /\ \A p \in 1..Len(x.s) : x.s[p] \notin {"\n", "\\"}
    /\ toLowerCase(trim(x.s)) \notin { <<"t","r","u","e">>, <<"f","a","l","s","e">>,
                                      <<"n","u","l","l">> }
    /\ ~IsCanonicalNumber(trim(x.s))
    /\ ~IsQuotedWith(trim(x.s), "\"")
    /\ ~IsQuotedWith(trim(x.s), "'")

IsFlatObject(x) ==
    /\ x.t = "object"
    /\ \A k \in 1..Len(x.keys) :
        /\ IsIdentifier(x.keys[k])
        /\ \A m \in 1..Len(x.keys) : x.keys[m] = x.keys[k] => m = k
        /\ \/ IsPlainString(x.items[k])
           \/ /\ x.items[k].t = "array"
              /\ x.items[k].items # <<>>
              /\ \A m \in 1..Len(x.items[k].items) : IsPlainString(x.items[k].items[m])

\* the text C2 describes: the root line, and after it, one to a line, each key at
\* indentation 2 and each array entry as a list item at indentation 4
FlatText(x, n) ==
    n \o <<":", "\n">> \o
    join([k \in 1..Len(x.keys) |->
            IF x.items[k].t = "string"
            THEN Spaces(2) \o x.keys[k] \o <<":", " ">> \o x.items[k].s
            ELSE join(<<Spaces(2) \o x.keys[k] \o <<":">>>> \o
                      [m \in 1..Len(x.items[k].items) |->
                          Spaces(4) \o <<"-", " ">> \o x.items[k].items[m].s],
                      <<"\n">>)],
         <<"\n">>)

\* C2: for a JSON object whose keys are identifiers and whose values are plain
\* single-line strings or non-empty arrays of such strings, the importer emits
\* the root line, each key at indentation 2 and each array entry as a list item
\* at indentation 4, and the exporter returns an object equal to the input, with
\* keys and array entries in the same order.
C2_FlatRoundTrip ==
    (Exported /\ rootZwType = RootName /\ IsFlatObject(json))
    => /\ zw = FlatText(json, RootName)
       /\ back = json

----------------------------------------------------------------------------
(* C11 *)

\* identifier, d, and a rest that may be empty
IsKeyedText(t, d) ==
    /\ FirstAt(t, d) > 1
    /\ \A q \in 1..(FirstAt(t, d) - 1) : t[q] \in KeyChar

\* the text of a list-item line after the prefix and the space, trimmed
ItemContentOf(t) == trim(SubSeq(t, 3, Len(t)))

\* C11: in the parsers that take a list prefix option (parser.ts twice,
\* ZWParser.ts), with list prefix P, every line whose trimmed text starts with P
\* and a space is recorded as a list item of the current parent with the line's
\* depth; if the remainder is identifier, delimiter, rest, the item has
\* isKeyValue, itemKey = identifier and value = rest, otherwise only value =
\* remainder; a line that starts with '- ' is no list item when P is not '-'.
C11_ListItemPrefix ==
    LET P == listPrefixOf(variant, opts)
        d == delimiterOf(opts)
        t == trim(HandledLine)
    IN (variant \in {P1, P2, ZW} /\ Handled) =>
        /\ startsWith(t, <<P, " ">>) =>
            /\ last.kind = "item"
            /\ nodes[last.node].type = "item"
            /\ nodes[last.node].depth = getIndentation(HandledLine)
            /\ nodes[last.node].parent = stack[Len(stack)]
            /\ IF IsKeyedText(ItemContentOf(t), d)
               THEN /\ nodes[last.node].isKeyValue
                    /\ nodes[last.node].itemKey = KeyOfText(ItemContentOf(t), d)
                    /\ nodes[last.node].value = ContentOfText(ItemContentOf(t), d)
               ELSE /\ ~nodes[last.node].isKeyValue
                    /\ nodes[last.node].value = ItemContentOf(t)
        /\ (P # "-" /\ startsWith(t, <<"-", " ">>)) => last.kind # "item"

----------------------------------------------------------------------------
(* C12 *)

\* the children of the root of the tree the exporter parsed
RootChildren == children(nodes, 1)

RootItemsKey == <<"r","o","o","t","_","i","t","e","m","s">>

\* C12: convertZwToJsonObject returns null or a JSON object, never an array or a
\* scalar: a root whose children are section nodes yields the object of their
\* keys (each entry under the key of a child, no key twice), a root whose
\* children are list items yields {"root_items": [...]} with
\* one entry per item, and an error node or no tree yields null.
C12_ExporterResultShape ==
    Exported =>
        /\ back.t \in {"null", "object"}
        /\ (result = "null" \/ IsErrorNode) => back = JsonNull
        /\ IsTree => back.t = "object"
        /\ (/\ IsTree
            /\ RootChildren # <<>>
            /\ \A k \in 1..Len(RootChildren) : nodes[RootChildren[k]].type = "node")
           => /\ {back.keys[k] : k \in 1..Len(back.keys)}
                 \subseteq {nodes[RootChildren[k]].key : k \in 1..Len(RootChildren)}
              /\ \A k, m \in 1..Len(back.keys) : back.keys[k] = back.keys[m] => k = m
        /\ (/\ IsTree
            /\ RootChildren # <<>>
            /\ \A k \in 1..Len(RootChildren) : nodes[RootChildren[k]].type = "item")
           => /\ back.keys = <<RootItemsKey>>
              /\ back.items[1].t = "array"
              /\ Len(back.items[1].items) = Len(RootChildren)

\* a text whose root holds list items only, exported
C12_Witness ==
    /\ Exported
    /\ json = NoJson
    /\ IsTree
    /\ Len(RootChildren) >= 2
    /\ \A k \in 1..Len(RootChildren) : nodes[RootChildren[k]].type = "item"
    /\ back.keys = <<RootItemsKey>>

----------------------------------------------------------------------------
(* C13 *)

\* the root's children that are leaves with a key of their own among the root's
\* children, when the exporter made an object of them
ExportedLeaves ==
    IF Exported /\ IsTree /\ back.t = "object"
       /\ \A k \in 1..Len(RootChildren) : nodes[RootChildren[k]].type = "node"
    THEN { n \in 2..Len(nodes) :
             /\ nodes[n].parent = 1
             /\ ~nodes[n].isArray
             /\ \E m \in 1..Len(back.keys) : back.keys[m] = nodes[n].key
             /\ \A m \in 2..Len(nodes) :
                  (nodes[m].parent = 1 /\ nodes[m].key = nodes[n].key) => m = n }
    ELSE {}

\* the root's children, leaves or sections, with a key of their own and an entry
\* in the object the exporter made of a map-shaped root
ExportedLeavesOrSections ==
    IF Exported /\ IsTree /\ back.t = "object"
       /\ \A k \in 1..Len(RootChildren) : nodes[RootChildren[k]].type = "node"
    THEN { n \in 2..Len(nodes) :
             /\ nodes[n].parent = 1
             /\ \E m \in 1..Len(back.keys) : back.keys[m] = nodes[n].key
             /\ \A m \in 2..Len(nodes) :
                  (nodes[m].parent = 1 /\ nodes[m].key = nodes[n].key) => m = n }
    ELSE {}

\* what the exporter returned for the leaf nodes[n]
ExportedValueOf(n) == back.items[CHOOSE m \in 1..Len(back.keys) : back.keys[m] = nodes[n].key]

\* the integers whose spelling a leaf of the model can have
SpelledNumbers == (0 - 99)..99

\* the interior of a quoted text, every backslash before the quote q removed
InteriorOf(t, q) ==
    LET inner == SubSeq(t, 2, Len(t) - 1)
        keep == {p \in 1..Len(inner) :
                    ~(inner[p] = "\\" /\ p < Len(inner) /\ inner[p + 1] = q)}
    IN [k \in 1..Cardinality(keep) |->
           inner[CHOOSE p \in keep : Cardinality({r \in keep : r < p}) = k - 1]]

\* C13: inferJsonValue trims the leaf string and applies, first match wins:
\* true/false in any letter case gives a boolean; null in any case gives null; the
\* canonical spelling of a number gives that number ('07' stays a string); a text
\* of length 2 or more in matching double or single quotes gives its interior
\* with escaped quotes unescaped; anything else gives the trimmed string.
C13_ScalarInferenceOrder ==
    \A n \in ExportedLeaves :
        LET t == trim(nodes[n].value)
            r == ExportedValueOf(n)
            low == toLowerCase(t)
            isBool == low \in {<<"t","r","u","e">>, <<"f","a","l","s","e">>}
            isNull == low = <<"n","u","l","l">>
            isNum == \E x \in SpelledNumbers : numToString(x) = t
            isDouble == Len(t) >= 2 /\ t[1] = "\"" /\ t[Len(t)] = "\""
            isSingle == Len(t) >= 2 /\ t[1] = "'" /\ t[Len(t)] = "'"
        IN IF isBool THEN r = JsonBoolean(low = <<"t","r","u","e">>)
           ELSE IF isNull THEN r = JsonNull
           ELSE IF isNum THEN r.t = "number" /\ numToString(r.n) = t
           ELSE IF isDouble THEN r = JsonString(InteriorOf(t, "\""))
           ELSE IF isSingle THEN r = JsonString(InteriorOf(t, "'"))
           ELSE r = JsonString(t)

\* a leaf spelled in upper case letters that came back as a boolean
C13_Witness ==
    \E n \in ExportedLeaves :
        /\ trim(nodes[n].value) = <<"F", "A", "L", "S", "E">>
        /\ ExportedValueOf(n) = JsonBoolean(FALSE)

----------------------------------------------------------------------------
(* C14 *)

\* C14: for every input that is not valid JSON, with or without a root type
\* name, convertJsonToZwString returns a text in which every line starts with
\* the comment marker '#': no root line and no data line.
C14_InvalidJsonIsCommentOnly ==
    (pc = "zw" /\ json.t = "invalid") =>
        \A n \in 1..Len(splitLines(zw)) : startsWith(splitLines(zw)[n], <<"#">>)

----------------------------------------------------------------------------
(* C15 *)

\* the JSON text had an array or a primitive at its root
RootIsArrayOrPrimitive == json.t \in {"array", "string", "number", "boolean", "null"}

FirstLineOf(s) == splitLines(s)[1]

\* C15: for every JSON text whose root is an array or a primitive, with or
\* without a root type name, the first line of convertJsonToZwString's output
\* matches the parser's root-line pattern, so parsing that output never yields
\* the sentinel error node.
C15_SyntheticWrapperRoot ==
    (Exported /\ RootIsArrayOrPrimitive) =>
        /\ rootMatch(ZP, DefaultOptions, FirstLineOf(zw)).ok
        /\ rootMatch(P1, DefaultOptions, FirstLineOf(zw)).ok
        /\ IsTree

----------------------------------------------------------------------------
(* C16 *)

\* a trimmed text that is no list item, no section header and no key/value pair
IsPlainText(t, P, d) ==
    /\ t # <<>>
    /\ ~startsWith(t, <<P, " ">>)
    /\ ~IsHeaderText(t, d)
    /\ ~IsKeyedText(t, d)

\* the loop is about to read lines[i] and the line before it made or extended
\* the key/value leaf nodes[last.node]
AfterLeafLine ==
    /\ pc = "lines"
    /\ i <= Len(lines)
    /\ last.kind \in {"kv", "continuation"}
    /\ nodes[last.node].type = "node"
    /\ ~nodes[last.node].isArray

\* C16: when a key/value line is followed by a line that is neither a list item,
\* a section header nor a key/value pair and that resolves to the same parent,
\* the trimmed text of that line is appended to the preceding leaf's value after
\* a newline, the number of children of the parent is unchanged, and several
\* such lines accumulate in input order.
C16_Continuation ==
    [][(/\ AfterLeafLine
        /\ i' = i + 1
        /\ IsPlainText(trim(lines[i]), listPrefixOf(variant, opts), delimiterOf(opts))
        /\ last'.parent = last.parent)
       => /\ nodes' = [nodes EXCEPT ![last.node].value = @ \o <<"\n">> \o trim(lines[i])]
          /\ Len(children(nodes', last.parent)) = Len(children(nodes, last.parent))]_vars

----------------------------------------------------------------------------
(* C17 *)

\* convertZwToGodot has been called on the parser's result
Scripted == pc \in {"script", "threw"}

ScriptLines == splitLines(gdScript)

\* the lines of the script that start an assignment
AssignmentLines == {n \in 1..Len(ScriptLines) : startsWith(ScriptLines[n], <<"v", "a", "r", " ">>)}

\* the root key with every hyphen replaced by an underscore, upper-cased
IdentifierOf(key) ==
    [n \in 1..Len(key) |-> IF key[n] = "-" THEN "_" ELSE toUpperCaseChar(key[n])]

\* C17: convertZwToGodot emits an assignment if and only if its input is a
\* non-null tree whose key does not start with 'Error:'; in that case there is
\* exactly one assignment and its identifier is the root key with every hyphen
\* replaced by an underscore and all letters upper-cased; otherwise the output
\* consists only of comment lines that name the parse failure.
C17_ScriptOutputForm ==
    Scripted =>
        /\ IsTree <=> (pc = "script" /\ AssignmentLines # {})
        /\ IsTree =>
            /\ Cardinality(AssignmentLines) = 1
            /\ \A n \in AssignmentLines :
                 startsWith(ScriptLines[n],
                            <<"v", "a", "r", " ">> \o IdentifierOf(nodes[1].key) \o <<" ", "=", " ">>)
        /\ ~IsTree =>
            /\ pc = "script"
            /\ \A n \in 1..Len(ScriptLines) : startsWith(ScriptLines[n], <<"#">>)
            /\ startsWith(ScriptLines[1], <<"#", " ", "Error: Invalid ZW input or parsing failed.">>)

----------------------------------------------------------------------------
(* C18 *)

\* C18: when the first and the last non-empty line of the input are fence
\* markers, parsing the input gives the same result as parsing the input with
\* those two lines removed; when only one of the two is a fence, nothing is
\* stripped: the parser reads every significant line of the input as it is.
C18_FenceStripping ==
    Done =>
        /\ BothFenced(input) =>
              [result |-> result, nodes |-> nodes]
                  = parseZW(variant, opts, WithoutFenceLines(input))
        /\ (OpensWithFence(input) # ClosesWithFence(input) /\ result = "node") =>
              lines = SelectSeq(splitLines(input), IsSignificant)

----------------------------------------------------------------------------
(* C19 *)

\* the significant lines of the text the parser reads
SignificantRead == SelectSeq(splitLines(TextRead), IsSignificant)

\* the first significant line is one the parser takes as the root line
HasValidRootLine ==
    /\ SignificantRead # <<>>
    /\ rootMatch(variant, opts, SignificantRead[1]).ok

\* the identifier of the root line: what stands before the delimiter
RootIdentifier ==
    LET line == trim(SignificantRead[1])
    IN SubSeq(line, 1, runLen(line, 0, RootChar))

\* for every input whose first significant line is a valid root line, the
\* parser returns a node with that root identifier as key and depth 0, whatever
\* the later lines contain
RootIsReturned ==
    (Done /\ HasValidRootLine) =>
        /\ result = "node"
        /\ nodes[1].key = RootIdentifier
        /\ nodes[1].depth = 0
        /\ nodes[1].parent = 0

\* a later line that matches no pattern and cannot be folded into a
\* continuation leaves the tree built so far unchanged
DroppedLineKeepsTree ==
    (pc = "lines" /\ i' = i + 1 /\ last'.kind = "dropped") => nodes' = nodes

\* such a line leaves the stack of open sections unchanged
DroppedLineKeepsStack ==
    (pc = "lines" /\ i' = i + 1 /\ last'.kind = "dropped") => stack' = stack

\* C19: for every input whose first significant line is a valid root line, the
\* parser returns a node with that root identifier as key and depth 0, whatever
\* the later lines contain; a later line that matches no pattern and cannot be
\* folded into a continuation leaves the tree built so far and the contents of
\* the stack of open sections unchanged.
C19_InteriorLeniency ==
    /\ []RootIsReturned
    /\ [][DroppedLineKeepsTree /\ DroppedLineKeepsStack]_vars

----------------------------------------------------------------------------
(* C20 *)

\* the Section-Node children of the node q: its children that carry a key
NodeChildren(ns, q) == SelectSeq(children(ns, q), LAMBDA n : ns[n].type = "node")

\* the identifier a trimmed line starts with
LeadingKey(t) == SubSeq(t, 1, runLen(t, 0, KeyChar))

\* C20: every section line and every key/value line adds one child, with the
\* line's key, at the end of the value sequence of the parent it is attached
\* to, whether or not that parent already has a child of the same key, and
\* changes no earlier node; no other line changes the number of Section-Node
\* children of any node.  So a parent has as many Section-Node children as
\* section and key/value lines were attached to it, in input order.
C20_DuplicateKeysAreKept ==
    [][(pc = "lines" /\ i' = i + 1) =>
         IF last'.kind \in {"section", "kv"}
         THEN /\ Len(nodes') = Len(nodes) + 1
              /\ SubSeq(nodes', 1, Len(nodes)) = nodes
              /\ nodes'[Len(nodes')].type = "node"
              /\ nodes'[Len(nodes')].parent = last'.parent
              /\ nodes'[Len(nodes')].key = LeadingKey(trim(lines[i]))
              /\ Len(NodeChildren(nodes', last'.parent))
                    = Len(NodeChildren(nodes, last'.parent)) + 1
         ELSE \A q \in 1..Len(nodes) :
                 Len(NodeChildren(nodes', q)) = Len(NodeChildren(nodes, q))]_vars

\* a parent with two children of one key, the later a key/value leaf
C20_Witness ==
    /\ Done
    /\ IsTree
    /\ \E m, n \in 2..Len(nodes) :
          /\ m < n
          /\ nodes[m].type = "node" /\ nodes[n].type = "node"
          /\ nodes[m].parent = nodes[n].parent
          /\ nodes[m].key = nodes[n].key
          /\ ~nodes[n].isArray

----------------------------------------------------------------------------
(* C21 *)

\* the top of the stack once the pop loop has run on the handled line: a
\* section line has pushed its own node above it since
TopAfterPop ==
    IF last.kind = "section" THEN stack[Len(stack) - 1] ELSE stack[Len(stack)]

\* C21: for every non-root line, after the pop loop the node the line is
\* attached to is the most recently opened section (or the root) that is still
\* open, and its depth is strictly less than the line's own depth; this holds
\* also for a line with no indentation and for a line indented by an odd number
\* of columns.
C21_ParentSelection ==
    Handled =>
        /\ last.parent = TopAfterPop
        /\ nodes[last.parent].isArray
        /\ nodes[last.parent].depth < lineDepth(variant, HandledLine)
        /\ last.kind \in {"item", "section", "kv"} =>
              /\ nodes[last.node].parent = last.parent
              /\ nodes[last.parent].depth < nodes[last.node].depth

----------------------------------------------------------------------------
(* C22 *)

\* the node q has a child that is a section
HasSectionChild(ns, q) ==
    \E k \in 1..Len(children(ns, q)) :
        ns[children(ns, q)[k]].type = "node" /\ ns[children(ns, q)[k]].isArray

\* C22: when a line matches no pattern and the children of its parent are not
\* all scalar-valued (at least one child is a section), the line is discarded
\* and the tree is unchanged, even if the parent's last child is a
\* string-valued leaf.
C22_ContinuationDiscard ==
    [][(/\ pc = "lines"
        /\ i' = i + 1
        /\ last'.kind \notin {"item", "section", "kv"}
        /\ HasSectionChild(nodes, last'.parent))
       => (nodes' = nodes /\ last'.kind = "dropped")]_vars

----------------------------------------------------------------------------
(* C23 *)

\* the root's value is a map-shaped sequence: Section Nodes only, at least one
RootIsMapShaped ==
    /\ Exported
    /\ IsTree
    /\ RootChildren # <<>>
    /\ \A k \in 1..Len(RootChildren) : nodes[RootChildren[k]].type = "node"

\* the last child of the root that carries the key
LastRootChildWith(key) ==
    RootChildren[Max({k \in 1..Len(RootChildren) : nodes[RootChildren[k]].key = key})]

\* C23: for a map-shaped sequence in which a key occurs more than once, the
\* produced JSON object has exactly one entry per distinct key and the entry's
\* value is the converted value of the last child with that key; children with
\* distinct keys are all present.
C23_DuplicateKeysOnExport ==
    RootIsMapShaped =>
        /\ back.t = "object"
        /\ \A k, m \in 1..Len(back.keys) : back.keys[k] = back.keys[m] => k = m
        /\ {back.keys[k] : k \in 1..Len(back.keys)}
              = {nodes[RootChildren[k]].key : k \in 1..Len(RootChildren)}
        /\ \A k \in 1..Len(back.keys) :
              back.items[k] = convertZwValueToJson(nodes, LastRootChildWith(back.keys[k]))

----------------------------------------------------------------------------
(* C24 *)

\* the sections whose exported value the result shows and whose value is a
\* non-empty sequence of List Items: the root, and the children of a map-shaped
\* root that have an entry of their own
ExportedLists ==
    IF ~(Exported /\ IsTree) THEN {}
    ELSE { n \in {1} \cup {m \in 2..Len(nodes) : m \in ExportedLeavesOrSections} :
             /\ nodes[n].isArray
             /\ children(nodes, n) # <<>>
             /\ \A k \in 1..Len(children(nodes, n)) : nodes[children(nodes, n)[k]].type = "item" }

\* what the exporter returned for the value of nodes[n]
ExportedArrayOf(n) == IF n = 1 THEN back.items[1] ELSE ExportedValueOf(n)

\* C24: a non-empty sequence of List Items converts to a JSON array of the same
\* length and order, in which each key/value item becomes an object with the
\* single key itemKey mapped to its inferred value and each scalar item becomes
\* its inferred scalar.
C24_ListExport ==
    \A n \in ExportedLists :
        LET items == children(nodes, n)
            array == ExportedArrayOf(n)
        IN /\ array.t = "array"
           /\ Len(array.items) = Len(items)
           /\ \A k \in 1..Len(items) :
                 IF nodes[items[k]].isKeyValue
                 THEN array.items[k] = JsonObject(<<nodes[items[k]].itemKey>>,
                                                  <<inferJsonValue(nodes[items[k]].value)>>)
                 ELSE array.items[k] = inferJsonValue(nodes[items[k]].value)

\* a root list of a key/value item and a scalar item, exported
C24_Witness ==
    /\ 1 \in ExportedLists
    /\ Len(RootChildren) >= 2
    /\ nodes[RootChildren[1]].isKeyValue
    /\ ~nodes[RootChildren[2]].isKeyValue
    /\ Len(back.items[1].items) = Len(RootChildren)

----------------------------------------------------------------------------
(* C25 *)

\* the place of nodes[n] among the children of its parent
PlaceOf(n) ==
    CHOOSE k \in 1..Len(children(nodes, nodes[n].parent)) :
        children(nodes, nodes[n].parent)[k] = n

\* the children of nodes[p] are exported as a list: the first one is a List Item
ExportedAsList(p) == nodes[children(nodes, p)[1]].type = "item"

\* nodes[n] has a place of its own in what the exporter returned: each of its
\* ancestors is an entry of a list, or the only child of its key in a map whose
\* key the object holds
RECURSIVE HasOwnEntry(_)
HasOwnEntry(n) ==
    IF n = 1 THEN Exported /\ IsTree /\ back.t = "object"
    ELSE /\ HasOwnEntry(nodes[n].parent)
         /\ \/ ExportedAsList(nodes[n].parent)
            \/ /\ nodes[n].type = "node"
               /\ nodes[n].key # ProtoKey
               /\ \A m \in 2..Len(nodes) :
                     (nodes[m].parent = nodes[n].parent /\ keyAsNode(nodes[m]) = nodes[n].key)
                         => m = n

\* the entry of the key in a JSON object
EntryOf(obj, key) == obj.items[CHOOSE m \in 1..Len(obj.keys) : obj.keys[m] = key]

\* what the exporter returned for the value of nodes[n]; the list of the root
\* stands under root_items
RECURSIVE ExportedAt(_)
ExportedAt(n) ==
    IF n = 1 THEN (IF RootChildren # <<>> /\ ExportedAsList(1) THEN back.items[1] ELSE back)
    ELSE IF ExportedAsList(nodes[n].parent)
    THEN LET entry == ExportedAt(nodes[n].parent).items[PlaceOf(n)]
         IN IF nodes[n].isKeyValue THEN entry.items[1] ELSE entry
    ELSE EntryOf(ExportedAt(nodes[n].parent), nodes[n].key)

\* the section headers with no child lines, the root among them
EmptySections ==
    {n \in 1..Len(nodes) : nodes[n].type = "node" /\ nodes[n].isArray /\ children(nodes, n) = <<>>}

\* how many sequences nodes[n] is nested in
RECURSIVE NestingOf(_)
NestingOf(n) == IF n = 1 THEN 0 ELSE 1 + NestingOf(nodes[n].parent)

\* the line the script exporter writes for an entry: two columns per level, the
\* text, a comma unless it is the last entry
IsEntryLine(line, n, text) ==
    \/ line = Spaces(2 * NestingOf(n)) \o text
    \/ line = Spaces(2 * NestingOf(n)) \o text \o <<",">>

\* C25: a section header with no child lines converts to the empty JSON object
\* {}, never to an empty array, at the root and at every nested level; the
\* script exporter writes the empty map literal {} for it as well.
C25_EmptySequenceExport ==
    /\ (Exported /\ IsTree) =>
          \A n \in EmptySections : HasOwnEntry(n) => ExportedAt(n) = JsonObject(<<>>, <<>>)
    /\ (pc = "script" /\ IsTree) =>
          \A n \in EmptySections :
              IF n = 1
              THEN ScriptLines[2] = <<"v", "a", "r", " ">> \o IdentifierOf(nodes[1].key)
                                    \o <<" ", "=", " ", "{", "}">>
              ELSE \E k \in 1..Len(ScriptLines) :
                      \/ IsEntryLine(ScriptLines[k], n,
                                     formatGodotKey(nodes[n].key) \o <<":", " ", "{", "}">>)
                      \/ /\ ExportedAsList(nodes[n].parent)
                         /\ IsEntryLine(ScriptLines[k], n, <<"{", "}">>)

\* a nested section header with no child lines, exported to JSON
C25_Witness ==
    /\ Exported
    /\ IsTree
    /\ \E n \in EmptySections :
          /\ n # 1
          /\ nodes[n].parent # 1
          /\ HasOwnEntry(n)
          /\ ExportedAt(n) = JsonObject(<<>>, <<>>)

----------------------------------------------------------------------------
(* C26 *)

\* the pairs <<K, M>> of a key K of the object, or of an object nested in it,
\* whose value is an object with first key M
RECURSIVE NestedKeyPairs(_)
NestedKeyPairs(obj) ==
    UNION { IF obj.items[k].t = "object" /\ obj.items[k].keys # <<>>
            THEN {<<obj.keys[k], obj.items[k].keys[1]>>} \cup NestedKeyPairs(obj.items[k])
            ELSE {} : k \in 1..Len(obj.keys) }

\* the importer has written the text of a JSON object
ImportedObject == pc \in {"zw", "exported", "script", "threw"} /\ json.t = "object"

ZwLines == splitLines(zw)

\* C26: for every JSON object nested inside another object, the lines of its
\* keys are indented exactly one level (2 columns) deeper than the line of the
\* key that holds it, at every nesting depth.
C26_ImporterIndentation ==
    ImportedObject =>
        \A pair \in NestedKeyPairs(json) :
            \A n \in 1..Len(ZwLines) :
                trim(ZwLines[n]) = pair[1] \o <<":">> =>
                    /\ n < Len(ZwLines)
                    /\ startsWith(trim(ZwLines[n + 1]), pair[2] \o <<":">>)
                    /\ getIndentation(ZwLines[n + 1])
                          = getIndentation(ZwLines[n]) + JSON_TO_ZW_INDENT_SPACES

----------------------------------------------------------------------------
(* C27 *)

\* the JSON text is an object of one key that holds an array of objects whose
\* values are scalars
HoldsArrayOfObjects ==
    /\ json.t = "object"
    /\ Len(json.keys) = 1
    /\ json.items[1].t = "array"
    /\ json.items[1].items # <<>>
    /\ \A k \in 1..Len(json.items[1].items) :
          /\ json.items[1].items[k].t = "object"
          /\ json.items[1].items[k].keys # <<>>
          /\ \A m \in 1..Len(json.items[1].items[k].items) :
                json.items[1].items[k].items[m].t \in {"string", "number", "boolean", "null"}

\* the keys of the entries of the array
EntryKeys ==
    UNION { {json.items[1].items[k].keys[m] : m \in 1..Len(json.items[1].items[k].keys)} :
            k \in 1..Len(json.items[1].items) }

\* the key a node or a list item carries
CarriedKey(c) == IF c.type = "item" THEN c.itemKey ELSE c.key

\* C27: for a JSON array whose entries are objects, every key/value pair of an
\* entry is rendered under that entry's own list-item marker, so that after
\* parsing the output no key of an array entry is attached to a node other than
\* the section holding the array (an entry with two or more keys does not leak
\* its second key to the root).
C27_ArraysOfObjects ==
    (Exported /\ HoldsArrayOfObjects /\ rootZwType = RootName) =>
        /\ IsTree
        /\ nodes[2].key = json.keys[1]
        /\ nodes[2].isArray
        /\ \A n \in 3..Len(nodes) : nodes[n].parent = 2
        /\ \A key \in EntryKeys : \E n \in 3..Len(nodes) : CarriedKey(nodes[n]) = key

----------------------------------------------------------------------------
(* C28 *)

\* the sequences of the tree: the nodes whose value is an array
SequenceNodes == {n \in 1..Len(nodes) : nodes[n].type = "node" /\ nodes[n].isArray}

\* C28: for every tree the parser can return and every sequence in it, the
\* script-literal exporter renders the sequence as a map literal exactly when
\* the JSON exporter renders it as an object, and as an array literal exactly
\* when the JSON exporter renders it as an array; both decide from the first
\* child only (a List Item first means list) and both treat the empty sequence
\* as a map.
C28_ExporterAgreement ==
    (Scripted /\ IsTree) =>
        /\ pc = "script"
        /\ \A n \in SequenceNodes :
              LET asJson == convertZwValueToJson(nodes, n)
                  asScript == convertNodeValueToGodot(nodes, n, 0)
                  listFirst == children(nodes, n) # <<>>
                               /\ nodes[children(nodes, n)[1]].type = "item"
              IN /\ ~asScript.threw
                 /\ asJson.t = "array" <=> listFirst
                 /\ asJson.t = "object" <=> ~listFirst
                 /\ asScript.text[1] = "[" <=> listFirst
                 /\ asScript.text[1] = "{" <=> ~listFirst
        /\ LET opening == ScriptLines[2][Len(ScriptLines[2])]
           IN IF RootChildren # <<>> /\ nodes[RootChildren[1]].type = "item"
              THEN opening = "["
              ELSE opening \in {"{", "}"}

----------------------------------------------------------------------------
(* C29 *)

\* the section headers pushed so far: every node with a sequence value but the root
SectionsPushed == Cardinality({n \in 2..Len(nodes) : nodes[n].type = "node" /\ nodes[n].isArray})

\* C29: at every step of parsing the stack of open sections is non-empty, its
\* bottom element is the root, the depths of its elements strictly increase
\* from bottom to top, and the number of pops (the pushes that are no longer on
\* the stack) never exceeds the number of section headers pushed; the parse
\* reads each line once.
C29_StackInvariant ==
    (pc = "lines" \/ (pc = "done" /\ IsTree)) =>
        /\ stack # <<>>
        /\ stack[1] = 1
        /\ \A p \in 1..(Len(stack) - 1) : nodes[stack[p]].depth < nodes[stack[p + 1]].depth
        /\ Len(stack) - 1 <= SectionsPushed
        /\ i <= Len(lines) + 1

----------------------------------------------------------------------------
(* C30 *)

\* one pass of the loop
LineRead == pc = "lines" /\ i' = i + 1

\* a sequence-valued node
IsSection(ns, n) == ns[n].type = "node" /\ ns[n].isArray

\* C30: a key/value leaf and a list item are never pushed on the stack, so
\* whatever a line adds is added to the innermost open section header or to the
\* root, never beneath a leaf or an item, however deep the line is indented;
\* every list item has a string value, no leaf turns into a sequence, and a
\* node with a sequence value is the root or was made by a section header line.
C30_OnlySectionsGainChildren ==
    [][LineRead =>
        /\ \A p \in 1..Len(stack') : IsSection(nodes', stack'[p])
        /\ Len(stack') > Len(stack) => last'.kind = "section"
        /\ \A n \in 1..Len(nodes) : nodes'[n].isArray = nodes[n].isArray
        /\ \A n \in 1..Len(nodes') : nodes'[n].type = "item" => ~nodes'[n].isArray
        /\ \A n \in (Len(nodes) + 1)..Len(nodes') :
              /\ IsSection(nodes', nodes'[n].parent)
              /\ nodes'[n].parent = stack'[Len(stack') - (IF last'.kind = "section" THEN 1 ELSE 0)]
              /\ nodes'[n].isArray => last'.kind = "section"
        /\ \A n \in 2..Len(nodes') : IsSection(nodes', nodes'[n].parent)]_vars

\* a line indented deeper than the leaf or the list item before it has made an
\* element, and the element is a sibling or an uncle of that leaf, not its child
C30_Witness ==
    /\ Handled
    /\ last.kind \in {"item", "section", "kv", "push"}
    /\ last.node = Len(nodes)
    /\ Len(nodes) >= 3
    /\ ~nodes[Len(nodes) - 1].isArray
    /\ nodes[Len(nodes) - 1].depth < getIndentation(HandledLine)
    /\ nodes[Len(nodes)].parent # Len(nodes) - 1
    /\ IsSection(nodes, nodes[Len(nodes)].parent)

====
